---------------------------- MODULE Spec2Model ----------------------------
(***************************************************************************)
(* A model of the fiberassign focal-plane hardware (src/src/hardware.cpp), *)
(* of the tile set (src/src/tiles.cpp) and of the assignment engine that   *)
(* src/src/global.h declares.                                              *)
(*                                                                         *)
(* Numbers.  The code computes in double precision; the model computes in  *)
(* fixed point:                                                            *)
(*   - lengths are integers in units of 0.01 mm,                           *)
(*   - angles in radians are integers in units of pi/60 (3 degrees), so    *)
(*     M_PI is 60 and the degree-to-radian conversion x * M_PI / 180 is    *)
(*     an integer division,                                                *)
(*   - cosines and sines are integers scaled by TRIG.                      *)
(* Most positions are drawn at points whose angles are multiples of pi/60, *)
(* where the fixed-point results are the exact ones; at the other points   *)
(* an angle is the exact one rounded to the nearest multiple of pi/60.     *)
(***************************************************************************)
EXTENDS Integers, Sequences, FiniteSets, TLC

VARIABLES
    input,      \* the arrays given to the Hardware constructor (one record per index)
    hw,         \* the Hardware object
    call,       \* the last query made on the Hardware object and what it returned
    par,        \* a check_collisions_* call in its parallel loop: the call's locals
    result,     \* its std::vector<bool> result, shared by the workers
    lock,       \* the holder of the critical section (thread number + 1), or 0
    workers,    \* each thread of the team: where it is in the loop body
    plates,     \* P: avail[tile][loc], the candidates of each slot in rank order
    mtl,        \* M: nobs_remaining of each target
    A,          \* the assignment: A[tile][loc] is a target id or NoTarget
    committed,  \* the number of tiles observed so far (the tiles 1..committed)
    pass        \* the engine function that ran last, and the counts it started from

parVars == <<par, result, lock, workers>>

engVars == <<plates, mtl, A, committed, pass>>

vars == <<input, hw, call, par, result, lock, workers, plates, mtl, A, committed, pass>>

---------------------------------------------------------------------------
(* Units and literals of the code.                                         *)

M_PI == 60

FIBER_STATE_OK == 0

\* std::numeric_limits<float>::epsilon() is 1.19e-7 (mm^2): below the
\* resolution of a squared length in fixed point, where it is 0.
FLT_EPSILON == 0

Abs(x) == IF x < 0 THEN -x ELSE x

\* C's fmod: the result has the sign of x.
Fmod(x, m) == IF x >= 0 THEN x % m ELSE -((-x) % m)

---------------------------------------------------------------------------
(* <cmath>: cos, sin, acos, atan2, sqrt at the model's resolution.         *)

\* cos of 0, 3, ..., 90 degrees, scaled by TRIG.
CosTab ==
    << 1000, 999, 995, 988, 978, 966, 951, 934, 914, 891,
       866, 839, 809, 777, 743, 707, 669, 629, 588, 545,
       500, 454, 407, 358, 309, 259, 208, 156, 105, 52, 0 >>

\* The scale of the table: cos 0.
TRIG == CosTab[1]

Cos(u) ==
    LET m == u % (2 * M_PI) IN
    IF m <= 30 THEN CosTab[m + 1]
    ELSE IF m <= 60 THEN -CosTab[60 - m + 1]
    ELSE IF m <= 90 THEN -CosTab[m - 60 + 1]
    ELSE CosTab[120 - m + 1]

Sin(u) == Cos(u - 30)

\* acos(num / den): the angle in [0, pi] whose cosine is nearest num / den
\* (the cosine falls from one table angle to the next, so the nearest angle
\* is the one whose two midpoints enclose num / den).
ACos(num, den) ==
    LET n == 2 * TRIG * (IF den < 0 THEN -num ELSE num)
        d == Abs(den)
    IN  CHOOSE u \in 0..M_PI :
            /\ (u = 0) \/ (n <= d * (Cos(u - 1) + Cos(u)))
            /\ (u = M_PI) \/ (n > d * (Cos(u) + Cos(u + 1)))

\* atan2 in the first quadrant, x >= 0 and y >= 0 and not both 0: the table
\* angle nearest the direction (x, y).
ATanQ(y, x) ==
    LET cross(u) == Cos(u) * y - Sin(u) * x
        dot(u) == Cos(u) * x + Sin(u) * y
        below == CHOOSE u \in 0..(M_PI \div 2) :
                     /\ cross(u) >= 0
                     /\ \A v \in (u + 1)..(M_PI \div 2) : cross(v) < 0
    IN  IF below < M_PI \div 2 /\ dot(below + 1) > dot(below)
        THEN below + 1 ELSE below

\* atan2(y, x), in (-pi, pi]; 0 at the origin.
ATan2(y, x) ==
    IF x = 0 /\ y = 0 THEN 0
    ELSE IF x >= 0 /\ y >= 0 THEN ATanQ(y, x)
    ELSE IF x < 0 /\ y >= 0 THEN M_PI - ATanQ(y, -x)
    ELSE IF x < 0 THEN ATanQ(-y, -x) - M_PI
    ELSE -ATanQ(-y, x)

RECURSIVE SqrtIter(_, _)
SqrtIter(n, r) ==
    LET r2 == (r + n \div r) \div 2 IN
    IF r2 >= r THEN r ELSE SqrtIter(n, r2)

\* sqrt, rounded down to the length unit.
Sqrt(n) == IF n <= 0 THEN 0 ELSE SqrtIter(n, n)

---------------------------------------------------------------------------
(* A local variable that is set once and read several times:               *)
(* With(v, LAMBDA x : e) is e with x standing for the value of v.          *)

With(v, F(_)) == CHOOSE r \in { F(x) : x \in {v} } : TRUE

---------------------------------------------------------------------------
(* fiberassign::geom (geom.h is not among the source files): a shape is a  *)
(* reference point (axis) and a set of disks <<x, y, radius>> covering the *)
(* polygon.                                                                *)

Round(v) == (v + (TRIG \div 2)) \div TRIG

RotPt(p, cs) ==
    << Round(p[1] * cs[1] - p[2] * cs[2]), Round(p[1] * cs[2] + p[2] * cs[1]) >>

\* fbg::sq of a pair: the squared norm.
sq(p) == p[1] * p[1] + p[2] * p[2]

\* fbg::dist compared with a radius: dist(a, b) <= r.
DistLeq(a, b, r) == sq(<<a[1] - b[1], a[2] - b[2]>>) <= r * r

\* shape::transl
transl(shp, v) ==
    With(shp, LAMBDA s :
        [ axis    |-> <<s.axis[1] + v[1], s.axis[2] + v[2]>>,
          circles |-> { <<c[1] + v[1], c[2] + v[2], c[3]>> : c \in s.circles } ])

\* shape::rotation_origin: rotate the shape, axis included, about the origin.
rotation_origin(shp, cs) ==
    With(shp, LAMBDA s :
        [ axis    |-> RotPt(s.axis, cs),
          circles |-> { With(RotPt(<<c[1], c[2]>>, cs),
                             LAMBDA q : <<q[1], q[2], c[3]>>)
                        : c \in s.circles } ])

\* shape::rotation: rotate the shape about its axis.
rotation(shp, cs) ==
    With(shp, LAMBDA s :
        [ axis    |-> s.axis,
          circles |-> { With(RotPt(<<c[1] - s.axis[1], c[2] - s.axis[2]>>, cs),
                             LAMBDA q : <<q[1] + s.axis[1], q[2] + s.axis[2], c[3]>>)
                        : c \in s.circles } ])

\* fbg::intersect
intersect(shp1, shp2) ==
    \E a \in shp1.circles, b \in shp2.circles :
        sq(<<a[1] - b[1], a[2] - b[2]>>) <= (a[3] + b[3]) * (a[3] + b[3])

\* A default-constructed shape.
EmptyShape == [ axis |-> <<0, 0>>, circles |-> {} ]

---------------------------------------------------------------------------
(* std::map: a function on its key set.                                    *)

EmptyMap == << >>

Has(m, k) == k \in DOMAIN m

\* m[k] = v
Put(m, k, v) == [ x \in (DOMAIN m) \cup {k} |-> IF x = k THEN v ELSE m[x] ]

---------------------------------------------------------------------------
(* Hardware::Hardware.  The arrays of the constructor are one sequence of  *)
(* records, in[i].location being location[i] and so on.                    *)

\* x * M_PI / 180.0
Deg2Rad(x) == (x * M_PI) \div 180

neighbor_radius_mm == 1405

patrol_buffer_mm == 20

nfiber_petal == 500

\* std::stable_sort of a vector of int32_t.
Sorted(s) == SortSeq(s, LAMBDA a, b : a < b)

\* The index whose assignment m[location[i]] = ... is the last for key k.
LastIndex(in, k) ==
    CHOOSE i \in 1..Len(in) :
        /\ in[i].location = k
        /\ \A j \in (i + 1)..Len(in) : in[j].location # k

\* maxpetal, lines 54-59.
RECURSIVE MaxPetal(_, _, _)
MaxPetal(in, i, m) ==
    IF i > Len(in) THEN m
    ELSE MaxPetal(in, i + 1, IF in[i].petal > m THEN in[i].petal ELSE m)

\* petal_locations[p] as the loop of lines 91-120 leaves it: the locations of
\* petal p in input order.
RECURSIVE PetalPushes(_, _, _)
PetalPushes(in, p, i) ==
    IF i > Len(in) THEN << >>
    ELSE (IF in[i].petal = p THEN <<in[i].location>> ELSE << >>)
             \o PetalPushes(in, p, i + 1)

\* The neighbor scan, lines 153-164: x and y are 0-based positions in the
\* sorted locations, nb the neighbors map so far.
RECURSIVE NeighborScan(_, _, _, _, _)
NeighborScan(locations, pos, nb, x, y) ==
    LET nloc == Len(locations) IN
    IF x >= nloc THEN nb
    ELSE IF y >= nloc THEN NeighborScan(locations, pos, nb, x + 1, x + 2)
    ELSE LET xid == locations[x + 1]
             yid == locations[y + 1]
             nb1 == Put(nb, xid, Append(nb[xid], yid))
             nb2 == Put(nb1, yid, Append(nb1[yid], xid))
         IN  IF DistLeq(pos[xid], pos[yid], neighbor_radius_mm)
             THEN NeighborScan(locations, pos, nb2, x, y + 1)
             ELSE NeighborScan(locations, pos, nb, x, y + 1)

\* The petal rotation of lines 169-176, applied to the map excl once per
\* entry of locations.
RECURSIVE RotateExcl(_, _, _, _)
RotateExcl(excl, locations, loc_petal, i) ==
    IF i > Len(locations) THEN excl
    ELSE LET lid == locations[i]
             pt == loc_petal[lid]
             petalrot_deg == Fmod((7 + pt) * 36, 360)
             petalrot_rad == Deg2Rad(petalrot_deg)
             csang == <<Cos(petalrot_rad), Sin(petalrot_rad)>>
         IN  RotateExcl(Put(excl, lid, rotation_origin(excl[lid], csang)),
                        locations, loc_petal, i + 1)

Hardware(in) ==
    LET nloc == Len(in)
        npetal == MaxPetal(in, 1, 0) + 1
        ids == { in[i].location : i \in 1..nloc }
        last(k) == in[LastIndex(in, k)]
        locations == Sorted([ i \in 1..nloc |-> in[i].location ])
        loc_petal == [ k \in ids |-> last(k).petal ]
        loc_pos_xy_mm == [ k \in ids |-> <<last(k).x_mm, last(k).y_mm>> ]
        petals == (0..(npetal - 1)) \cup { in[i].petal : i \in 1..nloc }
    IN  [ nloc            |-> nloc,
          npetal          |-> npetal,
          locations       |-> locations,
          loc_petal       |-> loc_petal,
          loc_device      |-> [ k \in ids |-> last(k).device ],
          loc_device_type |-> [ k \in ids |-> last(k).device_type ],
          loc_fiber       |-> [ k \in ids |-> last(k).fiber ],
          loc_slitblock   |-> [ k \in ids |-> last(k).slitblock ],
          loc_blockfiber  |-> [ k \in ids |-> last(k).blockfiber ],
          petal_locations |->
              [ p \in petals |->
                  IF p \in 0..(npetal - 1)
                  THEN Sorted(PetalPushes(in, p, 1))
                  ELSE PetalPushes(in, p, 1) ],
          loc_pos_xy_mm   |-> loc_pos_xy_mm,
          state           |-> [ k \in ids |-> last(k).status ],
          neighbors       |->
              NeighborScan(locations, loc_pos_xy_mm, [ k \in ids |-> << >> ], 0, 1),
          petal_edge      |-> [ k \in ids |-> FALSE ],
          gfa_edge        |-> [ k \in ids |-> FALSE ],
          loc_theta_offset |-> [ k \in ids |-> Deg2Rad(last(k).theta_offset) ],
          loc_theta_min   |-> [ k \in ids |-> Deg2Rad(last(k).theta_min) ],
          loc_theta_max   |-> [ k \in ids |-> Deg2Rad(last(k).theta_max) ],
          loc_theta_arm   |-> [ k \in ids |-> last(k).theta_arm ],
          loc_phi_offset  |-> [ k \in ids |-> Deg2Rad(last(k).phi_offset) ],
          loc_phi_min     |-> [ k \in ids |-> Deg2Rad(last(k).phi_min) ],
          loc_phi_max     |-> [ k \in ids |-> Deg2Rad(last(k).phi_max) ],
          loc_phi_arm     |-> [ k \in ids |-> last(k).phi_arm ],
          loc_theta_excl  |-> [ k \in ids |-> last(k).excl_theta ],
          loc_phi_excl    |-> [ k \in ids |-> last(k).excl_phi ],
          loc_gfa_excl    |->
              RotateExcl([ k \in ids |-> last(k).excl_gfa ], locations, loc_petal, 1),
          loc_petal_excl  |->
              RotateExcl([ k \in ids |-> last(k).excl_petal ], locations, loc_petal, 1),
          nfiber_petal       |-> nfiber_petal,
          neighbor_radius_mm |-> neighbor_radius_mm,
          patrol_buffer_mm   |-> patrol_buffer_mm ]

---------------------------------------------------------------------------
(* Kinematics.  A reference parameter the code writes (double & ang, the   *)
(* shapes) comes back as a field of the result.                            *)

\* A variant of the range check that wraps the angle and accepts it without
\* the final comparison.
_check_angle_range_unchecked(ang, ang_zero, ang_min, ang_max) ==
    LET twopi == 2 * M_PI
        abs_min == ang_zero + ang_min
        abs_max == ang_zero + ang_max
        ang1 == IF ang < abs_min THEN ang + twopi ELSE ang
    IN  [ bad |-> FALSE, ang |-> IF ang1 > abs_max THEN ang1 - twopi ELSE ang1 ]

_check_angle_range(ang, ang_zero, ang_min, ang_max) ==
    LET twopi == 2 * M_PI
        abs_min == ang_zero + ang_min
        abs_max == ang_zero + ang_max
    IN  With(IF ang < abs_min THEN ang + twopi ELSE ang, LAMBDA ang1 :
        With(IF ang1 > abs_max THEN ang1 - twopi ELSE ang1, LAMBDA ang2 :
            [ bad |-> (ang2 < abs_min) \/ (ang2 > abs_max), ang |-> ang2 ]))

move_positioner_thetaphi(shptheta, shpphi, center, theta, phi, theta_arm, phi_arm, theta_zero, phi_zero, theta_min, phi_min, theta_max, phi_max) ==
    With(_check_angle_range(phi, phi_zero, phi_min, phi_max), LAMBDA bad_phi :
    With(_check_angle_range(theta, theta_zero, theta_min, theta_max), LAMBDA bad_theta :
    With(<<Cos(bad_theta.ang), Sin(bad_theta.ang)>>, LAMBDA cstheta :
    With(<<Cos(bad_phi.ang), Sin(bad_phi.ang)>>, LAMBDA csphi :
        IF bad_phi.bad \/ bad_theta.bad
        THEN [ fail |-> TRUE, shptheta |-> shptheta, shpphi |-> shpphi ]
        ELSE [ fail |-> FALSE,
               shptheta |-> transl(rotation_origin(shptheta, cstheta), center),
               shpphi |->
                   transl(rotation(rotation_origin(transl(shpphi, <<theta_arm, 0>>),
                                                   cstheta),
                                   csphi),
                          center) ]))))

\* A variant of the branches in which phi is the opening angle itself, at
\* the limits as well.
RawThetaPhiOpening(offset, theta_arm, phi_arm) ==
    LET sq_offset == sq(offset)
        sq_total_arm == (theta_arm + phi_arm) * (theta_arm + phi_arm)
        sq_diff_arm == (theta_arm - phi_arm) * (theta_arm - phi_arm)
    IN  IF sq_total_arm < sq_offset \/ sq_offset < sq_diff_arm
        THEN [ out |-> TRUE, phi |-> M_PI, theta |-> 0 ]
        ELSE [ out |-> FALSE,
               phi |-> ACos(theta_arm * theta_arm + phi_arm * phi_arm - sq_offset,
                            2 * theta_arm * phi_arm),
               theta |-> ATan2(offset[2], offset[1])
                             - ACos(theta_arm * theta_arm + sq_offset
                                        - phi_arm * phi_arm,
                                    2 * theta_arm * Sqrt(sq_offset)) ]

\* A variant of the branches in which theta is the direction of the offset,
\* without the angle txy between the theta arm and the offset.
RawThetaPhiNoTxy(offset, theta_arm, phi_arm) ==
    LET sq_offset == sq(offset)
        sq_total_arm == (theta_arm + phi_arm) * (theta_arm + phi_arm)
        sq_diff_arm == (theta_arm - phi_arm) * (theta_arm - phi_arm)
    IN  IF sq_total_arm < sq_offset \/ sq_offset < sq_diff_arm
        THEN [ out |-> TRUE, phi |-> M_PI, theta |-> 0 ]
        ELSE [ out |-> FALSE,
               phi |-> IF sq_offset = sq_total_arm THEN 0
                       ELSE IF sq_offset = sq_diff_arm THEN M_PI
                       ELSE M_PI - ACos(theta_arm * theta_arm + phi_arm * phi_arm
                                            - sq_offset,
                                        2 * theta_arm * phi_arm),
               theta |-> ATan2(offset[2], offset[1]) ]

\* phi and theta as lines 513-564 leave them, before the range check; out
\* says that the position is outside the annulus (the early returns).
RawThetaPhi(offset, theta_arm, phi_arm) ==
    LET sq_theta_arm == theta_arm * theta_arm
        sq_phi_arm == phi_arm * phi_arm
        sq_offset == sq(offset)
        sq_total_arm == (theta_arm + phi_arm) * (theta_arm + phi_arm)
        sq_diff_arm == (theta_arm - phi_arm) * (theta_arm - phi_arm)
    IN  IF Abs(sq_offset - sq_total_arm) <= FLT_EPSILON
             \/ Abs(sq_diff_arm - sq_offset) <= FLT_EPSILON
        THEN [ out |-> FALSE,
               phi |-> IF Abs(sq_offset - sq_total_arm) <= FLT_EPSILON
                       THEN 0 ELSE M_PI,
               theta |-> ATan2(offset[2], offset[1]) ]
        ELSE IF sq_total_arm < sq_offset \/ sq_offset < sq_diff_arm
        THEN [ out |-> TRUE, phi |-> M_PI, theta |-> 0 ]
        ELSE LET opening == ACos(sq_theta_arm + sq_phi_arm - sq_offset,
                                 2 * theta_arm * phi_arm)
                 nrm_offset == Sqrt(sq_offset)
                 txy == ACos(sq_theta_arm + sq_offset - sq_phi_arm,
                             2 * theta_arm * nrm_offset)
             IN  [ out |-> FALSE, phi |-> M_PI - opening,
                   theta |-> ATan2(offset[2], offset[1]) - txy ]

xy_to_thetaphi(center, position, theta_arm, phi_arm, theta_zero, phi_zero, theta_min, phi_min, theta_max, phi_max) ==
    With(RawThetaPhi(<<position[1] - center[1], position[2] - center[2]>>,
                     theta_arm, phi_arm), LAMBDA raw :
    With(_check_angle_range(raw.phi, phi_zero, phi_min, phi_max), LAMBDA bad_phi :
    With(_check_angle_range(raw.theta, theta_zero, theta_min, theta_max), LAMBDA bad_theta :
        IF raw.out
        THEN [ fail |-> TRUE, theta |-> raw.theta, phi |-> raw.phi ]
        ELSE [ fail |-> bad_phi.bad \/ bad_theta.bad,
               theta |-> bad_theta.ang, phi |-> bad_phi.ang ])))

move_positioner_xy(shptheta, shpphi, center, position, theta_arm, phi_arm, theta_zero, phi_zero, theta_min, phi_min, theta_max, phi_max) ==
    With(xy_to_thetaphi(center, position, theta_arm, phi_arm, theta_zero,
                        phi_zero, theta_min, phi_min, theta_max, phi_max),
         LAMBDA tp :
        IF tp.fail
        THEN [ fail |-> TRUE, shptheta |-> shptheta, shpphi |-> shpphi ]
        ELSE move_positioner_thetaphi(shptheta, shpphi, center, tp.theta, tp.phi,
                                      theta_arm, phi_arm, theta_zero, phi_zero,
                                      theta_min, phi_min, theta_max, phi_max))

---------------------------------------------------------------------------
(* Queries on a Hardware object h.  std::map::at throws std::out_of_range  *)
(* for a key the map does not hold: a result is a record whose field exc   *)
(* says that the call ended in that exception.                             *)

Thrown(v) == [ exc |-> TRUE, val |-> v ]

Returned(v) == [ exc |-> FALSE, val |-> v ]

\* What loc_position_* leaves in its outputs: failed and the two shapes.
Placement(m) ==
    [ failed |-> m.fail, shptheta |-> m.shptheta, shpphi |-> m.shpphi ]

NoPlacement ==
    [ failed |-> FALSE, shptheta |-> EmptyShape, shpphi |-> EmptyShape ]

position_xy_bad(h, loc, xy) ==
    IF ~Has(h.loc_pos_xy_mm, loc) THEN Thrown(FALSE)
    ELSE Returned(xy_to_thetaphi(h.loc_pos_xy_mm[loc], xy,
                                 h.loc_theta_arm[loc], h.loc_phi_arm[loc],
                                 h.loc_theta_offset[loc], h.loc_phi_offset[loc],
                                 h.loc_theta_min[loc], h.loc_phi_min[loc],
                                 h.loc_theta_max[loc], h.loc_phi_max[loc]).fail)

loc_position_xy(h, loc, xy) ==
    IF ~Has(h.loc_theta_excl, loc) THEN Thrown(NoPlacement)
    ELSE With(move_positioner_xy(
                  h.loc_theta_excl[loc], h.loc_phi_excl[loc],
                  h.loc_pos_xy_mm[loc], xy,
                  h.loc_theta_arm[loc], h.loc_phi_arm[loc],
                  h.loc_theta_offset[loc], h.loc_phi_offset[loc],
                  h.loc_theta_min[loc], h.loc_phi_min[loc],
                  h.loc_theta_max[loc], h.loc_phi_max[loc]),
              LAMBDA m : Returned(Placement(m)))

\* A variant of loc_position_thetaphi that turns the theta arm by phi and
\* the phi arm by theta.
loc_position_thetaphi_swapped(h, loc, theta, phi) ==
    IF ~Has(h.loc_theta_excl, loc) THEN Thrown(NoPlacement)
    ELSE With(move_positioner_thetaphi(
                  h.loc_theta_excl[loc], h.loc_phi_excl[loc],
                  h.loc_pos_xy_mm[loc], phi, theta,
                  h.loc_theta_arm[loc], h.loc_phi_arm[loc],
                  h.loc_theta_offset[loc], h.loc_phi_offset[loc],
                  h.loc_theta_min[loc], h.loc_phi_min[loc],
                  h.loc_theta_max[loc], h.loc_phi_max[loc]),
              LAMBDA m : Returned(Placement(m)))

loc_position_thetaphi(h, loc, theta, phi) ==
    IF ~Has(h.loc_theta_excl, loc) THEN Thrown(NoPlacement)
    ELSE With(move_positioner_thetaphi(
                  h.loc_theta_excl[loc], h.loc_phi_excl[loc],
                  h.loc_pos_xy_mm[loc], theta, phi,
                  h.loc_theta_arm[loc], h.loc_phi_arm[loc],
                  h.loc_theta_offset[loc], h.loc_phi_offset[loc],
                  h.loc_theta_min[loc], h.loc_phi_min[loc],
                  h.loc_theta_max[loc], h.loc_phi_max[loc]),
              LAMBDA m : Returned(Placement(m)))

\* A variant of the pair tests, with the theta bodies tested against each other as well.
HitWithBodies(p1, p2) ==
    \/ intersect(p1.shpphi, p2.shpphi)
    \/ intersect(p1.shptheta, p2.shpphi)
    \/ intersect(p2.shptheta, p1.shpphi)
    \/ intersect(p1.shptheta, p2.shptheta)

\* A variant of the pair tests, without the test of theta2 against phi1.
HitOneSided(p1, p2) ==
    \/ intersect(p1.shpphi, p2.shpphi)
    \/ intersect(p1.shptheta, p2.shpphi)

\* The three intersection tests of two placed positioners, in the order of
\* the code (lines 704-714, 781-791, 945-951, 1048-1054).
Hit(p1, p2) ==
    IF intersect(p1.shpphi, p2.shpphi) THEN TRUE
    ELSE IF intersect(p1.shptheta, p2.shpphi) THEN TRUE
    ELSE IF intersect(p2.shptheta, p1.shpphi) THEN TRUE
    ELSE FALSE

collide_xy(h, loc1, xy1, loc2, xy2) ==
    With(loc_position_xy(h, loc1, xy1), LAMBDA p1 :
        IF p1.exc THEN Thrown(FALSE)
        ELSE IF p1.val.failed THEN Returned(TRUE)
        ELSE With(loc_position_xy(h, loc2, xy2), LAMBDA p2 :
            IF p2.exc THEN Thrown(FALSE)
            ELSE IF p2.val.failed THEN Returned(TRUE)
            ELSE Returned(Hit(p1.val, p2.val))))

\* A variant of collide_xy_edges that tests the theta arm against the two
\* boundary polygons as well.
collide_xy_edges_theta(h, loc, xy) ==
    With(loc_position_xy(h, loc, xy), LAMBDA p :
        IF p.exc THEN Thrown(FALSE)
        ELSE IF p.val.failed THEN Returned(TRUE)
        ELSE Returned(\/ intersect(p.val.shpphi, h.loc_gfa_excl[loc])
                      \/ intersect(p.val.shpphi, h.loc_petal_excl[loc])
                      \/ intersect(p.val.shptheta, h.loc_gfa_excl[loc])
                      \/ intersect(p.val.shptheta, h.loc_petal_excl[loc])))

collide_xy_edges(h, loc, xy) ==
    With(loc_position_xy(h, loc, xy), LAMBDA p :
        IF p.exc THEN Thrown(FALSE)
        ELSE IF p.val.failed THEN Returned(TRUE)
        ELSE IF intersect(p.val.shpphi, h.loc_gfa_excl[loc]) THEN Returned(TRUE)
        ELSE IF intersect(p.val.shpphi, h.loc_petal_excl[loc]) THEN Returned(TRUE)
        ELSE Returned(FALSE))

collide_thetaphi(h, loc1, theta1, phi1, loc2, theta2, phi2) ==
    With(loc_position_thetaphi(h, loc1, theta1, phi1), LAMBDA p1 :
        IF p1.exc THEN Thrown(FALSE)
        ELSE IF p1.val.failed THEN Returned(TRUE)
        ELSE With(loc_position_thetaphi(h, loc2, theta2, phi2), LAMBDA p2 :
            IF p2.exc THEN Thrown(FALSE)
            ELSE IF p2.val.failed THEN Returned(TRUE)
            ELSE Returned(Hit(p1.val, p2.val))))

---------------------------------------------------------------------------
(* The batch forms.  loc, xy, theta, phi are sequences of one length.      *)

\* The thread count of the parallel loops: threads when positive, else
\* max_threads, and never more than max_threads (omp_get_num_threads()).
RunThreads(threads, max_threads) ==
    LET run_threads == IF threads > 0 THEN threads ELSE max_threads IN
    IF run_threads > max_threads THEN max_threads ELSE run_threads

\* The result vector of a *_multi call from what each iteration f wrote to
\* its slot; an exception in any iteration ends the call.
Slots(res) ==
    IF \E f \in DOMAIN res : res[f].exc
    THEN Thrown(<< >>)
    ELSE Returned([ f \in DOMAIN res |-> res[f].val ])

loc_position_xy_multi(h, loc, xy) ==
    With([ f \in 1..Len(loc) |-> loc_position_xy(h, loc[f], xy[f]) ],
         LAMBDA res : Slots(res))

loc_position_thetaphi_multi(h, loc, theta, phi) ==
    With([ f \in 1..Len(loc) |->
               loc_position_thetaphi(h, loc[f], theta[f], phi[f]) ],
         LAMBDA res : Slots(res))

\* loc_indx after the loop over loc: the 0-based index of the last entry
\* equal to lid.
LocIndx(loc) ==
    [ lid \in { loc[i] : i \in 1..Len(loc) } |->
        (CHOOSE i \in 1..Len(loc) :
            /\ loc[i] = lid
            /\ \A j \in (i + 1)..Len(loc) : loc[j] # lid) - 1 ]

\* The inner loop over neighbors.at(lid): checklookup after the neighbors
\* nbs[j..] of lid are entered.
RECURSIVE AddNeighbors(_, _, _, _)
AddNeighbors(checklookup, lid, nbs, j) ==
    IF j > Len(nbs) THEN checklookup
    ELSE LET nb == nbs[j]
             low == IF lid < nb THEN lid ELSE nb
             high == IF lid < nb THEN nb ELSE lid
         IN  With(IF Has(checklookup, low) THEN checklookup
                  ELSE Put(checklookup, low, << >>), LAMBDA cl :
                 AddNeighbors(IF \E k \in 1..Len(cl[low]) : cl[low][k] = high
                              THEN cl
                              ELSE Put(cl, low, Append(cl[low], high)),
                              lid, nbs, j + 1))

\* The loop over loc that fills checklookup.  Every entry of loc is a key of
\* neighbors here (the placement of the batch has already looked it up).
RECURSIVE BuildLookup(_, _, _, _)
BuildLookup(h, loc, i, checklookup) ==
    IF i > Len(loc) THEN checklookup
    ELSE BuildLookup(h, loc, i + 1,
                     AddNeighbors(checklookup, loc[i], h.neighbors[loc[i]], 1))

\* checkpairs: the map read in key order, each key's vector in its order.
RECURSIVE CheckPairs(_, _)
CheckPairs(checklookup, keys) ==
    IF keys = {} THEN << >>
    ELSE LET low == CHOOSE k \in keys : \A k2 \in keys : k <= k2 IN
         [ i \in 1..Len(checklookup[low]) |-> <<low, checklookup[low][i]>> ]
             \o CheckPairs(checklookup, keys \ {low})

\* One iteration of the loop over the pairs: what it finds for pair <<flow,
\* fhigh>>.  loc_indx.at throws for a location that was not supplied.
PairHit(fpos, loc_indx, pair) ==
    LET flow == pair[1]
        fhigh == pair[2]
    IN  IF ~Has(loc_indx, flow) \/ ~Has(loc_indx, fhigh) THEN Thrown(FALSE)
        ELSE With(fpos[loc_indx[flow] + 1], LAMBDA p1 :
             With(fpos[loc_indx[fhigh] + 1], LAMBDA p2 :
                 IF p1.failed \/ p2.failed THEN Returned(TRUE)
                 ELSE Returned(Hit(p1, p2))))

\* The critical section of a hit: both slots of result (marks) are set.
MarkPair(marks, loc_indx, pair) ==
    [ i \in 1..Len(marks) |->
        marks[i] \/ i = loc_indx[pair[1]] + 1 \/ i = loc_indx[pair[2]] + 1 ]

\* The loop over the pairs, run by one thread.
RECURSIVE PairLoop(_, _, _, _, _)
PairLoop(fpos, loc_indx, checkpairs, p, marks) ==
    IF p > Len(checkpairs) THEN Returned(marks)
    ELSE With(PairHit(fpos, loc_indx, checkpairs[p]), LAMBDA hit :
         IF hit.exc THEN Thrown(<< >>)
         ELSE PairLoop(fpos, loc_indx, checkpairs, p + 1,
                       IF hit.val THEN MarkPair(marks, loc_indx, checkpairs[p])
                       ELSE marks))

\* checkpairs of a batch whose locations are all in the table.
BatchPairs(h, loc) ==
    With(BuildLookup(h, loc, 1, EmptyMap), LAMBDA checklookup :
        CheckPairs(checklookup, DOMAIN checklookup))

\* What both check_collisions_* do once the batch is placed (fpos).
CheckPlaced(h, loc, fpos) ==
    IF fpos.exc THEN Thrown(<< >>)
    ELSE With(BatchPairs(h, loc), LAMBDA checkpairs :
         With(LocIndx(loc), LAMBDA loc_indx :
             PairLoop(fpos.val, loc_indx, checkpairs, 1,
                      [ i \in 1..Len(loc) |-> FALSE ])))

check_collisions_xy(h, loc, xy) ==
    With(loc_position_xy_multi(h, loc, xy), LAMBDA fpos :
        CheckPlaced(h, loc, fpos))

check_collisions_thetaphi(h, loc, theta, phi) ==
    With(loc_position_thetaphi_multi(h, loc, theta, phi), LAMBDA fpos :
        CheckPlaced(h, loc, fpos))

---------------------------------------------------------------------------
(* The sky projection.  Sky angles in degrees are multiples of 3; the      *)
(* radial fit works on angles in units of delta_theta = 1e-4 rad, which    *)
(* the model writes as integers, and gives millimetres.                    *)

\* inv_delta = 1.0 / delta_theta (line 211): the number of radial-fit angle
\* units in one radian.
inv_delta == 10000

\* An angle of the trigonometric tables in radial-fit units, and back
\* (pi is 31416 of them).
ToFit(u) == (u * 31416) \div M_PI

FromFit(t) == (2 * t * M_PI + 31416) \div (2 * 31416)

\* radial_ang2dist, lines 197-204: Horner's rule over p[4] = {8.297e5,
\* -1750., 1.394e4, 0.0}, the intermediate sums in mm and the result in
\* 0.01 mm.
radial_ang2dist(theta_rad) ==
    LET p == << 829700, -1750, 13940, 0 >> IN
    With((theta_rad * p[1]) \div inv_delta + p[2], LAMBDA d2 :
    With((theta_rad * d2) \div inv_delta + p[3], LAMBDA d3 :
        (theta_rad * d3) \div (inv_delta \div 100) + 100 * p[4]))

\* The largest number of Newton steps the model follows.
MaxNewton == 8

\* The loop of radial_dist2ang, lines 221-227: it ends when the error is
\* below the tolerance (here: when the correction is below one angle unit).
RECURSIVE NewtonLoop(_, _, _)
NewtonLoop(dist_mm, theta_rad, n) ==
    With(radial_ang2dist(theta_rad), LAMBDA distcur :
    With(radial_ang2dist(theta_rad + 1), LAMBDA distdelta :
    With(distcur - dist_mm, LAMBDA error :
    With(distdelta - distcur, LAMBDA slope :
    With(IF error >= 0 THEN (2 * error + slope) \div (2 * slope)
         ELSE -((2 * (-error) + slope) \div (2 * slope)), LAMBDA correction :
        IF n = 0 \/ correction = 0 THEN theta_rad
        ELSE NewtonLoop(dist_mm, theta_rad - correction, n - 1))))))

\* radial_dist2ang, lines 208-229: the starting guess is 0.01 rad.
radial_dist2ang(dist_mm) == NewtonLoop(dist_mm, inv_delta \div 100, MaxNewton)

\* 2 * pow(sin(a / 2), 2), scaled by TRIG: 1 - cos a.
TwoSinHalfSq(a) == TRIG - Cos(a)

\* sqrt(x * x + y * y) of two lengths, at a resolution of 0.1 mm (the
\* squares of lengths in 0.01 mm leave the integer range).
Hypot(x, y) == 10 * Sqrt((x \div 10) * (x \div 10) + (y \div 10) * (y \div 10))

\* radec2xy, lines 232-289.  The unit vectors are scaled by TRIG; v0, v1
\* and v are <<x0, y0, z0>>, <<x1, y1, z1>> and <<x, y, z>>.
radec2xy(tilera, tiledec, tiletheta, ra, dec) ==
    LET inc_rad == Deg2Rad(90 - dec)
        ra_rad == Deg2Rad(ra)
        tilera_rad == Deg2Rad(tilera)
        tiledec_rad == Deg2Rad(tiledec)
        tiletheta_rad == Deg2Rad(tiletheta)
    IN  With(<< Round(Sin(inc_rad) * Cos(ra_rad)),
                Round(Sin(inc_rad) * Sin(ra_rad)),
                Cos(inc_rad) >>, LAMBDA v0 :
        With(<< Round(Cos(tilera_rad) * v0[1] + Sin(tilera_rad) * v0[2]),
                Round(Cos(tilera_rad) * v0[2] - Sin(tilera_rad) * v0[1]),
                v0[3] >>, LAMBDA v1 :
        With(<< Round(Cos(tiledec_rad) * v1[1] + Sin(tiledec_rad) * v1[3]),
                v1[2],
                Round(Cos(tiledec_rad) * v1[3] - Sin(tiledec_rad) * v1[1]) >>, LAMBDA v :
        With(ATan2(v[2], v[1]), LAMBDA atan :
        With(IF atan < 0 THEN 2 * M_PI + atan ELSE atan, LAMBDA ra_ang_rad :
        With((M_PI \div 2)
                 - ACos(v[3], Sqrt(v[1] * v[1] + v[2] * v[2] + v[3] * v[3])),
             LAMBDA dec_ang_rad :
        \* h is twice the argument of the square root of lines 273-275, and
        \* 2 * asin(sqrt(h / 2)) is acos(1 - h).
        With(TwoSinHalfSq(dec_ang_rad)
                 + Round(Cos(dec_ang_rad) * TwoSinHalfSq(ra_ang_rad)), LAMBDA h :
        With(ACos(TRIG - h, TRIG), LAMBDA radius_rad :
        With(ATan2(v[3], -v[2]), LAMBDA q_rad :
        With(radial_ang2dist(ToFit(radius_rad)), LAMBDA radius_mm :
        With(q_rad + tiletheta_rad, LAMBDA rotated :
            << Round(radius_mm * Cos(rotated)),
               Round(radius_mm * Sin(rotated)) >>)))))))))))

\* xy2radec, lines 324-385.  The result is in degrees; v2, v3 and v4 are
\* <<x2, y2, z2>>, <<x3, y3, z3>> and <<x4, y4, z4>>.
xy2radec(tilera, tiledec, tiletheta, x_mm, y_mm) ==
    LET rad_to_deg == 180 \div M_PI
        tilera_rad == Deg2Rad(tilera)
        tiledec_rad == Deg2Rad(tiledec)
        tiletheta_rad == Deg2Rad(tiletheta)
    IN  With(Hypot(x_mm, y_mm), LAMBDA radius_mm :
        With(FromFit(radial_dist2ang(radius_mm)), LAMBDA radius_rad :
        With(ATan2(y_mm, x_mm), LAMBDA rotated :
        With(rotated - tiletheta_rad, LAMBDA q_rad :
        With(<< Cos(radius_rad), -Sin(radius_rad) >>, LAMBDA v1 :
        With(<< v1[1], Round(v1[2] * Cos(q_rad)), -Round(v1[2] * Sin(q_rad)) >>,
             LAMBDA v2 :
        With(<< Round(Cos(tiledec_rad) * v2[1] - Sin(tiledec_rad) * v2[3]),
                v2[2],
                Round(Sin(tiledec_rad) * v2[1] + Cos(tiledec_rad) * v2[3]) >>,
             LAMBDA v3 :
        With(<< Round(Cos(tilera_rad) * v3[1] - Sin(tilera_rad) * v3[2]),
                Round(Sin(tilera_rad) * v3[1] + Cos(tilera_rad) * v3[2]),
                v3[3] >>, LAMBDA v4 :
        With(ATan2(v4[2], v4[1]), LAMBDA atan :
        With(IF atan < 0 THEN 2 * M_PI + atan ELSE atan, LAMBDA ra_rad :
        With((M_PI \div 2) - ACos(v4[3], TRIG), LAMBDA dec_rad :
            << Fmod(ra_rad * rad_to_deg, 360), dec_rad * rad_to_deg >>)))))))))))

---------------------------------------------------------------------------
(* The hardware tables the model is run on, and the arguments of the       *)
(* queries.                                                                *)

\* The longest input array.
MaxLoc == 2

\* Location ids given to the queries are 1..MaxLocId, in the table or not.
MaxLocId == 3

LocIds == 1..MaxLocId

Disk(x, y, r) == [ axis |-> <<0, 0>>, circles |-> { <<x, y, r>> } ]

\* One row of the hardware table: a positioner with both arms 3 mm long at
\* (x, 0), a central body of radius body, a ferrule of radius 1 mm at the
\* end of the phi arm.
Device(id, petal, x, body, theta_min, theta_max, phi_max) ==
    [ location |-> id, petal |-> petal, device |-> id, slitblock |-> 0,
      blockfiber |-> id, fiber |-> id, device_type |-> "POS",
      x_mm |-> x, y_mm |-> 0, status |-> FIBER_STATE_OK,
      theta_offset |-> 0, theta_min |-> theta_min, theta_max |-> theta_max,
      theta_arm |-> 300,
      phi_offset |-> 0, phi_min |-> 0, phi_max |-> phi_max, phi_arm |-> 300,
      excl_theta |-> Disk(0, 0, body),
      excl_phi |-> Disk(300, 0, 100),
      excl_gfa |-> Disk(0, 2000, 100),
      excl_petal |-> Disk(0, -2000, 100) ]

Devices ==
    { Device(1, 0, 0, 150, -180, 180, 180),      \* loc 1 at (0, 0)
      Device(3, 1, 1500, 150, -180, 180, 180),   \* loc 3, 15 mm from loc 1
      Device(2, 1, 600, 450, -180, 180, 180),    \* loc 2, 6 mm from loc 1, wide body
      Device(1, 0, 0, 150, -180, 180, 90),       \* loc 1, phi limited to 90 deg
      Device(3, -1, 1500, 150, 180, -180, 180) } \* loc 3, theta_min > theta_max

Inputs == UNION { [ 1..n -> Devices ] : n \in 0..MaxLoc }

Positions == { <<0, 0>>, <<300, 0>>, <<600, 0>>, <<1500, 0>> }

\* (theta, phi) pairs: folded, extended along +x, extended along -x, and the
\* pose that reaches (3 mm, 0) from the centre.
Poses == { <<0, 60>>, <<0, 0>>, <<60, 0>>, <<-20, 40>> }

Absent == << >>

RECURSIVE Ascending(_)
Ascending(S) ==
    IF S = {} THEN << >>
    ELSE LET m == CHOOSE k \in S : \A k2 \in S : k <= k2 IN
         <<m>> \o Ascending(S \ {m})

\* A batch: the locations of sel that are not Absent, in ascending order,
\* and what sel gives each.
BatchLocs(sel) == Ascending({ l \in DOMAIN sel : sel[l] # Absent })

BatchArgs(sel) == [ i \in 1..Len(BatchLocs(sel)) |-> sel[BatchLocs(sel)[i]] ]

---------------------------------------------------------------------------
(* The sequential specification: a Hardware object built from any input of *)
(* Inputs, then queried by one caller, one query at a time.                *)

NoCall == [ op |-> "none" ]

\* A variant of the placement in which shptheta and shpphi are the entries
\* of the tables themselves, moved in place.
PlacedInTables(h, loc, p) ==
    [ h EXCEPT !.loc_theta_excl = Put(@, loc, p.shptheta),
               !.loc_phi_excl = Put(@, loc, p.shpphi) ]

\* The Hardware object after one placement of loc that left p in the
\* caller's shapes.  shptheta = loc_theta_excl.at(loc) and shpphi =
\* loc_phi_excl.at(loc) (lines 629-630, 659-660) are copy assignments, the
\* placement moves the copies, and the member functions are const: the
\* tables hold what they held.
CopiedFromTables(h, loc, p) == h

\* The Hardware object after the placements of a query: loc are their
\* locations in call order, res what each returned.  A placement that
\* throws is the last one.
RECURSIVE AfterPlacements(_, _, _)
AfterPlacements(h, loc, res) ==
    IF res = << >> \/ Head(res).exc THEN h
    ELSE AfterPlacements(CopiedFromTables(h, Head(loc), Head(res).val),
                         Tail(loc), Tail(res))

\* The placements of collide_xy and collide_thetaphi: the second one is
\* made when the first one returned a reachable positioner.
PairPlacements(p1, p2) ==
    IF p1.exc \/ p1.val.failed THEN <<p1>> ELSE <<p1, p2>>

\* No parallel loop is running.
ParIdle ==
    /\ par = [ phase |-> "idle" ]
    /\ result = << >>
    /\ lock = 0
    /\ workers = << >>

\* No assignment is being computed.
EngIdle ==
    /\ plates = << >>
    /\ mtl = << >>
    /\ A = << >>
    /\ committed = 0
    /\ pass = [ op |-> "none" ]

Init ==
    /\ input \in Inputs
    /\ hw = Hardware(input)
    /\ call = NoCall
    /\ ParIdle
    /\ EngIdle

LocPositionXY(loc, xy) ==
    /\ call = NoCall
    /\ call' = [ op |-> "loc_position_xy", loc |-> loc, xy |-> xy,
                 ret |-> loc_position_xy(hw, loc, xy) ]
    /\ hw' = AfterPlacements(hw, <<loc>>, <<call'.ret>>)
    /\ UNCHANGED <<input, parVars, engVars>>

LocPositionThetaPhi(loc, tp) ==
    /\ call = NoCall
    /\ call' = [ op |-> "loc_position_thetaphi", loc |-> loc, tp |-> tp,
                 ret |-> loc_position_thetaphi(hw, loc, tp[1], tp[2]) ]
    /\ hw' = AfterPlacements(hw, <<loc>>, <<call'.ret>>)
    /\ UNCHANGED <<input, parVars, engVars>>

CollideXY(loc1, xy1, loc2, xy2) ==
    /\ call = NoCall
    /\ call' = [ op |-> "collide_xy", loc1 |-> loc1, xy1 |-> xy1,
                 loc2 |-> loc2, xy2 |-> xy2,
                 ret |-> collide_xy(hw, loc1, xy1, loc2, xy2) ]
    /\ hw' = AfterPlacements(hw, <<loc1, loc2>>,
                             PairPlacements(loc_position_xy(hw, loc1, xy1),
                                            loc_position_xy(hw, loc2, xy2)))
    /\ UNCHANGED <<input, parVars, engVars>>

CollideXYEdges(loc, xy) ==
    /\ call = NoCall
    /\ call' = [ op |-> "collide_xy_edges", loc |-> loc, xy |-> xy,
                 ret |-> collide_xy_edges(hw, loc, xy) ]
    /\ hw' = AfterPlacements(hw, <<loc>>, <<loc_position_xy(hw, loc, xy)>>)
    /\ UNCHANGED <<input, parVars, engVars>>

CheckCollisionsXY(sel) ==
    /\ call = NoCall
    /\ call' = [ op |-> "check_collisions_xy",
                 loc |-> BatchLocs(sel), xy |-> BatchArgs(sel),
                 ret |-> check_collisions_xy(hw, BatchLocs(sel), BatchArgs(sel)) ]
    /\ hw' = AfterPlacements(hw, BatchLocs(sel),
                             [ f \in 1..Len(BatchLocs(sel)) |->
                                 loc_position_xy(hw, BatchLocs(sel)[f],
                                                 BatchArgs(sel)[f]) ])
    /\ UNCHANGED <<input, parVars, engVars>>

CheckCollisionsThetaPhi(sel) ==
    /\ call = NoCall
    /\ call' = [ op |-> "check_collisions_thetaphi",
                 loc |-> BatchLocs(sel), tp |-> BatchArgs(sel),
                 ret |-> check_collisions_thetaphi(hw, BatchLocs(sel),
                             [ i \in 1..Len(BatchLocs(sel)) |-> BatchArgs(sel)[i][1] ],
                             [ i \in 1..Len(BatchLocs(sel)) |-> BatchArgs(sel)[i][2] ]) ]
    /\ hw' = AfterPlacements(hw, BatchLocs(sel),
                             [ f \in 1..Len(BatchLocs(sel)) |->
                                 loc_position_thetaphi(hw, BatchLocs(sel)[f],
                                                       BatchArgs(sel)[f][1],
                                                       BatchArgs(sel)[f][2]) ])
    /\ UNCHANGED <<input, parVars, engVars>>

\* The caller takes the result; the object is ready for the next query.
Return ==
    /\ call # NoCall
    /\ call' = NoCall
    /\ UNCHANGED <<input, hw, parVars, engVars>>

Next ==
    \/ \E loc \in LocIds, xy \in Positions : LocPositionXY(loc, xy)
    \/ \E loc \in LocIds, tp \in Poses : LocPositionThetaPhi(loc, tp)
    \/ \E loc1 \in LocIds, loc2 \in LocIds, xy1 \in Positions, xy2 \in Positions :
           CollideXY(loc1, xy1, loc2, xy2)
    \/ \E loc \in LocIds, xy \in Positions : CollideXYEdges(loc, xy)
    \/ \E sel \in [ LocIds -> Positions \cup {Absent} ] : CheckCollisionsXY(sel)
    \/ \E sel \in [ LocIds -> Poses \cup {Absent} ] : CheckCollisionsThetaPhi(sel)
    \/ Return

Spec == Init /\ [][Next]_vars

---------------------------------------------------------------------------
(* The parallel specification: the loop over the pairs of one              *)
(* check_collisions_* call, run by a team of threads.  Each thread takes   *)
(* one contiguous chunk of the pairs (schedule(static)) and runs the loop  *)
(* body step by step.  result is a std::vector<bool>: its entries are bits *)
(* of one word, and result[i] = true reads the word, sets the bit and      *)
(* writes the word back.                                                   *)

\* The largest thread count (omp_get_num_threads(), and the threads argument).
MaxThreads == 2

\* The table of the parallel calls: locations 1, 2, 3 in a row, 1-2 and 2-3
\* neighbors.
ParInput ==
    << Device(1, 0, 0, 150, -180, 180, 180),
       Device(2, 1, 600, 450, -180, 180, 180),
       Device(3, 1, 1500, 150, -180, 180, 180) >>

ParLocs == { ParInput[i].location : i \in 1..Len(ParInput) }

\* schedule(static) without a chunk size: the 0-based first iteration of
\* thread w of t over n iterations, the first n % t threads taking one more.
ChunkFirst(w, n, t) ==
    LET q == n \div t
        r == n % t
    IN  IF w < r THEN w * (q + 1) ELSE r * (q + 1) + (w - r) * q

\* The locals of the call when the parallel loop starts.
ParJob(form, loc, args, fpos, run_threads) ==
    [ phase |-> "running", form |-> form, loc |-> loc, args |-> args,
      fpos |-> fpos.val, loc_indx |-> LocIndx(loc),
      checkpairs |-> BatchPairs(hw, loc), run_threads |-> run_threads ]

\* The team of the loop over n pairs: p is the 1-based pair a thread is at,
\* last the last pair of its chunk, slot which of the two marks it is
\* writing, reg the word it has read.
Team(n, t) ==
    [ w \in 0..(t - 1) |->
        [ pc |-> "test", p |-> ChunkFirst(w, n, t) + 1,
          last |-> ChunkFirst(w + 1, n, t), slot |-> 1, reg |-> << >> ] ]

\* The call up to the parallel loop (lines 866-930, 968-1033).
StartCheck(form, sel, threads, max_threads) ==
    LET loc == BatchLocs(sel)
        args == BatchArgs(sel)
        fpos == IF form = "xy"
                THEN loc_position_xy_multi(hw, loc, args)
                ELSE loc_position_thetaphi_multi(hw, loc,
                         [ i \in 1..Len(loc) |-> args[i][1] ],
                         [ i \in 1..Len(loc) |-> args[i][2] ])
        job == ParJob(form, loc, args, fpos, RunThreads(threads, max_threads))
    IN  /\ par.phase = "idle"
        /\ par' = job
        /\ result' = [ i \in 1..Len(loc) |-> FALSE ]
        /\ lock' = 0
        /\ workers' = Team(Len(job.checkpairs), job.run_threads)
        /\ UNCHANGED <<input, hw, call, engVars>>

\* Thread w at the head of the loop body: the end of its chunk, or the test
\* of its next pair (lines 931-952).  An exception that leaves the loop body
\* ends the program.
TestPair(w) ==
    LET me == workers[w]
        hit == PairHit(par.fpos, par.loc_indx, par.checkpairs[me.p])
    IN  /\ par.phase = "running"
        /\ me.pc = "test"
        /\ IF me.p > me.last
           THEN /\ workers' = [ workers EXCEPT ![w].pc = "done" ]
                /\ UNCHANGED par
           ELSE IF hit.exc
           THEN /\ par' = [ par EXCEPT !.phase = "terminated" ]
                /\ UNCHANGED workers
           ELSE /\ workers' = IF hit.val
                              THEN [ workers EXCEPT ![w].pc = "enter" ]
                              ELSE [ workers EXCEPT ![w].p = me.p + 1 ]
                /\ UNCHANGED par
        /\ UNCHANGED <<input, hw, call, result, lock, engVars>>

\* A variant of the loop without the critical section: a thread goes on to
\* its marks whatever the others do.
CriticalAbsent(w) == TRUE

\* #pragma omp critical lets a thread in when no thread is inside.
CriticalFree(w) == lock = 0

EnterCritical(w) ==
    /\ par.phase = "running"
    /\ workers[w].pc = "enter"
    /\ CriticalFree(w)
    /\ lock' = w + 1
    /\ workers' = [ workers EXCEPT ![w].pc = "load", ![w].slot = 1 ]
    /\ UNCHANGED <<input, hw, call, par, result, engVars>>

\* result[...] = true, first half: the word is read.
LoadWord(w) ==
    /\ par.phase = "running"
    /\ workers[w].pc = "load"
    /\ workers' = [ workers EXCEPT ![w].pc = "store", ![w].reg = result ]
    /\ UNCHANGED <<input, hw, call, par, result, lock, engVars>>

\* result[...] = true, second half: the word is written with the bit set.
StoreWord(w) ==
    LET me == workers[w]
        bit == par.loc_indx[par.checkpairs[me.p][me.slot]] + 1
    IN  /\ par.phase = "running"
        /\ me.pc = "store"
        /\ result' = [ me.reg EXCEPT ![bit] = TRUE ]
        /\ workers' = IF me.slot = 1
                      THEN [ workers EXCEPT ![w].pc = "load", ![w].slot = 2 ]
                      ELSE [ workers EXCEPT ![w].pc = "leave" ]
        /\ UNCHANGED <<input, hw, call, par, lock, engVars>>

\* The end of the critical section and of the loop body.
LeaveCritical(w) ==
    /\ par.phase = "running"
    /\ workers[w].pc = "leave"
    /\ lock' = IF lock = w + 1 THEN 0 ELSE lock
    /\ workers' = [ workers EXCEPT ![w].pc = "test", ![w].p = workers[w].p + 1 ]
    /\ UNCHANGED <<input, hw, call, par, result, engVars>>

\* The barrier at the end of the parallel loop, and return result.
JoinAndReturn ==
    /\ par.phase = "running"
    /\ \A w \in DOMAIN workers : workers[w].pc = "done"
    /\ par' = [ par EXCEPT !.phase = "returned" ]
    /\ UNCHANGED <<input, hw, call, result, lock, workers, engVars>>

\* The caller takes the vector.
TakeResult ==
    /\ par.phase = "returned"
    /\ par' = [ phase |-> "idle" ]
    /\ result' = << >>
    /\ lock' = 0
    /\ workers' = << >>
    /\ UNCHANGED <<input, hw, call, engVars>>

InitPar ==
    /\ input = ParInput
    /\ hw = Hardware(input)
    /\ call = NoCall
    /\ ParIdle
    /\ EngIdle

NextPar ==
    \/ \E sel \in [ ParLocs -> Positions \cup {Absent} ],
          threads \in 0..MaxThreads, max_threads \in 1..MaxThreads :
           StartCheck("xy", sel, threads, max_threads)
    \/ \E sel \in [ ParLocs -> Poses \cup {Absent} ],
          threads \in 0..MaxThreads, max_threads \in 1..MaxThreads :
           StartCheck("thetaphi", sel, threads, max_threads)
    \/ \E w \in DOMAIN workers : TestPair(w)
    \/ \E w \in DOMAIN workers : EnterCritical(w)
    \/ \E w \in DOMAIN workers : LoadWord(w)
    \/ \E w \in DOMAIN workers : StoreWord(w)
    \/ \E w \in DOMAIN workers : LeaveCritical(w)
    \/ JoinAndReturn
    \/ TakeResult

SpecPar == InitPar /\ [][NextPar]_vars

---------------------------------------------------------------------------
(* The specification of the *_multi forms: the parallel loop of            *)
(* radec2xy_multi, xy2radec_multi, loc_position_xy_multi and               *)
(* loc_position_thetaphi_multi, run by a team of threads.  Each thread     *)
(* takes one contiguous chunk of the iterations (schedule(static)); an     *)
(* iteration computes the single-point operation and assigns one element   *)
(* of the output vector.  The elements are pairs, objects of their own: an *)
(* assignment to one leaves the others alone.                              *)

\* The largest length of the vectors given to a *_multi form.
MaxPoints == 2

\* The table of these calls: locations 1 and 2.
MultiInput ==
    << Device(1, 0, 0, 150, -180, 180, 180),
       Device(2, 1, 600, 450, -180, 180, 180) >>

\* The tile of the sky calls: tilera, tiledec, and the field rotations.
TileRaDec == <<30, 0>>

TileThetas == { 0, 90 }

\* (ra, dec) of targets, in degrees, and focal-plane (x, y) of positions.
SkyPoints == { <<30, 0>>, <<33, 0>>, <<30, 3>> }

FocalPoints == { <<0, 0>>, <<-84291, 0>>, <<0, 84291>> }

\* The locations of the table, and one that is not in it.
MultiLocs == 1..(Len(MultiInput) + 1)

\* Per-location arguments of the placement calls: <<loc, xy>> and
\* <<loc, <<theta, phi>> >>.
MultiPositions == MultiLocs \X { <<300, 0>>, <<1500, 0>> }

MultiPoses == MultiLocs \X { <<0, 0>>, <<-20, 40>> }

\* What the caller's output vector holds before the call.
PriorOutputs == { << >>, [ i \in 1..(MaxPoints + 1) |-> <<1, 1>> ] }

Vectors(S) == UNION { [ 1..n -> S ] : n \in 0..MaxPoints }

\* std::vector::resize(n): the first n elements stay, the new ones are
\* value-initialised.
Resize(v, n, zero) == [ i \in 1..n |-> IF i <= Len(v) THEN v[i] ELSE zero ]

\* The single-point operation on element t of the arguments.
SinglePoint(h, form, tile, args, t) ==
    CASE form = "radec2xy" ->
             Returned(radec2xy(tile[1], tile[2], tile[3], args[t][1], args[t][2]))
      [] form = "xy2radec" ->
             Returned(xy2radec(tile[1], tile[2], tile[3], args[t][1], args[t][2]))
      [] form = "loc_position_xy" ->
             loc_position_xy(h, args[t][1], args[t][2])
      [] form = "loc_position_thetaphi" ->
             loc_position_thetaphi(h, args[t][1], args[t][2][1], args[t][2][2])

\* The team of a loop over n iterations: f is the 1-based iteration a
\* thread is at, last the last iteration of its chunk.
MultiTeam(n, t) ==
    [ w \in 0..(t - 1) |->
        [ pc |-> "run", f |-> ChunkFirst(w, n, t) + 1,
          last |-> ChunkFirst(w + 1, n, t) ] ]

\* A variant of the loop whose iterations all assign the first element.
SlotShared(w, f) == 1

\* xy[t] = ..., radec[i] = ..., result[f] = ...: the element that thread w
\* assigns in iteration f.
Slot(w, f) == f

\* A *_multi call up to its parallel loop: the output is sized to the
\* arguments (lines 298-311, 393-407, 799-817, 833-851).
StartMulti(form, tiletheta, args, prior, threads, max_threads) ==
    /\ par.phase = "idle"
    /\ par' = [ phase |-> "running", form |-> form,
                tile |-> <<TileRaDec[1], TileRaDec[2], tiletheta>>,
                args |-> args,
                run_threads |-> RunThreads(threads, max_threads) ]
    /\ result' = IF form \in { "radec2xy", "xy2radec" }
                 THEN Resize(prior, Len(args), <<0, 0>>)
                 ELSE [ i \in 1..Len(args) |-> NoPlacement ]
    /\ workers' = MultiTeam(Len(args), RunThreads(threads, max_threads))
    /\ UNCHANGED <<input, hw, call, lock, engVars>>

\* One iteration of thread w, or the end of its chunk.  An exception that
\* leaves the loop body ends the program.
RunSlot(w) ==
    LET me == workers[w]
        r == SinglePoint(hw, par.form, par.tile, par.args, me.f)
    IN
    /\ par.phase = "running"
    /\ me.pc = "run"
    /\ IF me.f > me.last
       THEN /\ workers' = [ workers EXCEPT ![w].pc = "done" ]
            /\ UNCHANGED <<par, result>>
       ELSE IF r.exc
       THEN /\ par' = [ par EXCEPT !.phase = "terminated" ]
            /\ UNCHANGED <<workers, result>>
       ELSE /\ result' = [ result EXCEPT ![Slot(w, me.f)] = r.val ]
            /\ workers' = [ workers EXCEPT ![w].f = me.f + 1 ]
            /\ UNCHANGED par
    /\ UNCHANGED <<input, hw, call, lock, engVars>>

\* The barrier at the end of the parallel loop, and the return.
JoinMulti ==
    /\ par.phase = "running"
    /\ \A w \in DOMAIN workers : workers[w].pc = "done"
    /\ par' = [ par EXCEPT !.phase = "returned" ]
    /\ UNCHANGED <<input, hw, call, result, lock, workers, engVars>>

\* The caller takes the output.
TakeMulti ==
    /\ par.phase = "returned"
    /\ par' = [ phase |-> "idle" ]
    /\ result' = << >>
    /\ workers' = << >>
    /\ UNCHANGED <<input, hw, call, lock, engVars>>

InitMulti ==
    /\ input = MultiInput
    /\ hw = Hardware(input)
    /\ call = NoCall
    /\ ParIdle
    /\ EngIdle

NextMulti ==
    \/ \E tiletheta \in TileThetas, args \in Vectors(SkyPoints),
          prior \in PriorOutputs,
          threads \in (-1)..MaxThreads, max_threads \in 1..MaxThreads :
           StartMulti("radec2xy", tiletheta, args, prior, threads, max_threads)
    \/ \E tiletheta \in TileThetas, args \in Vectors(FocalPoints),
          prior \in PriorOutputs,
          threads \in (-1)..MaxThreads, max_threads \in 1..MaxThreads :
           StartMulti("xy2radec", tiletheta, args, prior, threads, max_threads)
    \/ \E args \in Vectors(MultiPositions),
          threads \in (-1)..MaxThreads, max_threads \in 1..MaxThreads :
           StartMulti("loc_position_xy", 0, args, << >>, threads, max_threads)
    \/ \E args \in Vectors(MultiPoses),
          threads \in (-1)..MaxThreads, max_threads \in 1..MaxThreads :
           StartMulti("loc_position_thetaphi", 0, args, << >>, threads, max_threads)
    \/ \E w \in DOMAIN workers : RunSlot(w)
    \/ JoinMulti
    \/ TakeMulti

SpecMulti == InitMulti /\ [][NextMulti]_vars

---------------------------------------------------------------------------
(* The kinematic specification: small hardware tables chosen for the       *)
(* branches of the inverse kinematics, the angle ranges and the boundary   *)
(* polygons, queried by one caller, one query at a time.                   *)

\* A row of Device with other arms, angle ranges and boundary polygons.
\* Petal 3 has the petal rotation (7 + 3) * 36 mod 360 = 0.
KinDevice(id, x, theta_arm, phi_arm, theta_offset, theta_range, phi_range, gfa, edge) ==
    [ Device(id, 3, x, 150, theta_range[1], theta_range[2], phi_range[2])
        EXCEPT !.theta_arm = theta_arm, !.phi_arm = phi_arm,
               !.theta_offset = theta_offset, !.phi_min = phi_range[1],
               !.excl_gfa = gfa, !.excl_petal = edge ]

FarGfa == Disk(0, 2000, 100)

FarEdge == Disk(0, -2000, 100)

KinInputs ==
    { \* one loc at (0, 0), arms (3, 3), angles unconstrained
      << KinDevice(1, 0, 300, 300, 0, <<-180, 180>>, <<-180, 180>>, FarGfa, FarEdge) >>,
      \* arms (3, 1): the folded arm reaches 2 mm from the centre
      << KinDevice(1, 0, 300, 100, 0, <<-180, 180>>, <<0, 180>>, FarGfa, FarEdge) >>,
      \* theta between 0 and 90 degrees, phi up to 150 degrees
      << KinDevice(1, 0, 300, 300, 0, <<0, 90>>, <<0, 150>>, FarGfa, FarEdge) >>,
      \* theta_offset 90 degrees: theta between -90 and 270 degrees
      << KinDevice(1, 0, 300, 300, 90, <<-180, 180>>, <<0, 180>>, FarGfa, FarEdge) >>,
      \* a GFA polygon under the central body, a petal edge at 7 mm
      << KinDevice(1, 0, 300, 300, 0, <<-180, 180>>, <<0, 180>>,
                   Disk(-200, 0, 100), Disk(700, 0, 50)) >>,
      \* two locs at (0, 0) and (6, 0), both arms (3, 3)
      << KinDevice(1, 0, 300, 300, 0, <<-180, 180>>, <<0, 180>>, FarGfa, FarEdge),
         KinDevice(2, 600, 300, 300, 0, <<-180, 180>>, <<0, 180>>, FarGfa, FarEdge) >> }

KinLocs == { 1, 2 }

KinPositions ==
    { <<0, 0>>, <<100, 0>>, <<200, 0>>, <<300, 0>>, <<400, 0>>, <<600, 0>>,
      <<1000, 0>>, <<0, -300>>, <<-300, 0>> }

PairPositions == { <<300, 0>>, <<600, 0>>, <<0, -300>>, <<1000, 0>> }

\* The arguments of _check_angle_range: the angle, the offset, <<min, max>>.
WrapAngles == { -130, -90, -61, -60, -1, 0, 45, 60, 61, 90, 130 }

WrapZeros == { 0, 30 }

WrapRanges == { <<-60, 60>>, <<0, 60>>, <<-66, 66>>, <<10, -10>> }

\* xy_to_thetaphi with the parameters of a location of the table.
XyToThetaPhi(loc, xy) ==
    /\ call = NoCall
    /\ Has(hw.loc_pos_xy_mm, loc)
    /\ call' = [ op |-> "xy_to_thetaphi", loc |-> loc,
                 center |-> hw.loc_pos_xy_mm[loc], position |-> xy,
                 ret |-> xy_to_thetaphi(hw.loc_pos_xy_mm[loc], xy,
                             hw.loc_theta_arm[loc], hw.loc_phi_arm[loc],
                             hw.loc_theta_offset[loc], hw.loc_phi_offset[loc],
                             hw.loc_theta_min[loc], hw.loc_phi_min[loc],
                             hw.loc_theta_max[loc], hw.loc_phi_max[loc]) ]
    /\ UNCHANGED <<input, hw, parVars, engVars>>

CheckAngleRange(ang, ang_zero, range) ==
    /\ call = NoCall
    /\ call' = [ op |-> "_check_angle_range", ang |-> ang, ang_zero |-> ang_zero,
                 ang_min |-> range[1], ang_max |-> range[2],
                 ret |-> _check_angle_range(ang, ang_zero, range[1], range[2]) ]
    /\ UNCHANGED <<input, hw, parVars, engVars>>

CollideThetaPhi(loc1, tp1, loc2, tp2) ==
    /\ call = NoCall
    /\ call' = [ op |-> "collide_thetaphi", loc1 |-> loc1, tp1 |-> tp1,
                 loc2 |-> loc2, tp2 |-> tp2,
                 ret |-> collide_thetaphi(hw, loc1, tp1[1], tp1[2],
                                          loc2, tp2[1], tp2[2]) ]
    /\ hw' = AfterPlacements(hw, <<loc1, loc2>>,
                 PairPlacements(loc_position_thetaphi(hw, loc1, tp1[1], tp1[2]),
                                loc_position_thetaphi(hw, loc2, tp2[1], tp2[2])))
    /\ UNCHANGED <<input, parVars, engVars>>

InitKin ==
    /\ input \in KinInputs
    /\ hw = Hardware(input)
    /\ call = NoCall
    /\ ParIdle
    /\ EngIdle

NextKin ==
    \/ \E loc \in KinLocs, xy \in KinPositions : XyToThetaPhi(loc, xy)
    \/ \E ang \in WrapAngles, ang_zero \in WrapZeros, range \in WrapRanges :
           CheckAngleRange(ang, ang_zero, range)
    \/ \E loc \in KinLocs, xy \in KinPositions : LocPositionXY(loc, xy)
    \/ \E loc \in KinLocs, tp \in Poses : LocPositionThetaPhi(loc, tp)
    \/ \E loc1 \in KinLocs, loc2 \in KinLocs,
          xy1 \in PairPositions, xy2 \in PairPositions :
           CollideXY(loc1, xy1, loc2, xy2)
    \/ \E loc1 \in KinLocs, loc2 \in KinLocs, tp1 \in Poses, tp2 \in Poses :
           CollideThetaPhi(loc1, tp1, loc2, tp2)
    \/ \E loc \in KinLocs, xy \in KinPositions : CollideXYEdges(loc, xy)
    \/ \E sel \in [ KinLocs -> PairPositions \cup {Absent} ] : CheckCollisionsXY(sel)
    \/ \E sel \in [ KinLocs -> Poses \cup {Absent} ] : CheckCollisionsThetaPhi(sel)
    \/ Return

SpecKin == InitKin /\ [][NextKin]_vars

---------------------------------------------------------------------------
(* Tiles::Tiles (src/src/tiles.cpp) and the specification of the tile set: *)
(* a caller constructs Tiles objects from vectors of one length.           *)

\* The largest number of tiles given to the constructor, and the largest
\* tile id.
MaxTiles == 3

MaxTileId == 3

\* The loop of lines 25-32: order[id[i]] = i, i counting from 0.
RECURSIVE OrderLoop(_, _, _)
OrderLoop(id, order, i) ==
    IF i >= Len(id) THEN order
    ELSE OrderLoop(id, Put(order, id[i + 1], i), i + 1)

\* The Tiles object the constructor leaves (lines 11-33).
NewTiles(h, ids, ras, decs, obs) ==
    [ hw_ |-> h, id |-> ids, ra |-> ras, dec |-> decs, obscond |-> obs,
      order |-> OrderLoop(ids, EmptyMap, 0) ]

\* The vectors of the constructor: ids, and an obscond bitmask per tile; tile
\* i of the sequence is at right ascension 3 * i degrees on the equator.
TileIdVectors == UNION { [ 1..n -> 1..MaxTileId ] : n \in 0..MaxTiles }

ObscondVectors(n) == [ 1..n -> { 1, 2 } ]

ConstructTiles(ids, obs) ==
    /\ call = NoCall
    /\ call' = [ op |-> "Tiles", ids |-> ids, obs |-> obs,
                 ret |-> NewTiles(hw, ids, [ i \in 1..Len(ids) |-> 3 * i ],
                                  [ i \in 1..Len(ids) |-> 0 ], obs) ]
    /\ UNCHANGED <<input, hw, parVars, engVars>>

InitTiles ==
    /\ input = << >>
    /\ hw = Hardware(input)
    /\ call = NoCall
    /\ ParIdle
    /\ EngIdle

NextTiles ==
    \/ \E ids \in TileIdVectors : \E obs \in ObscondVectors(Len(ids)) :
           ConstructTiles(ids, obs)
    \/ Return

SpecTiles == InitTiles /\ [][NextTiles]_vars

---------------------------------------------------------------------------
(* The assignment engine.  global.h declares its functions; their bodies   *)
(* are not among the source files, and the engine below follows the design *)
(* document: tiles 1..NTiles in order, locations in ascending order, the   *)
(* candidates of a slot in rank order.                                     *)

\* The number of tiles.
NTiles == 3

\* The largest nobs_remaining of a target.
MaxNobs == 2

\* A[tile][loc] of an unassigned slot.
NoTarget == 0

\* The focal plane of the engine: locations 1 at (0, 0) and 2 at (6 mm, 0).
EngInput ==
    << Device(1, 0, 0, 150, -180, 180, 180),
       Device(2, 0, 600, 150, -180, 180, 180) >>

EngHw == Hardware(EngInput)

\* The catalog: where each target falls on the focal plane, and its kind.
\* Target ids are in rank order (priority, subpriority, id).
TargetXY == << <<300, 0>>, <<-300, 0>>, <<600, 0>>, <<300, 0>> >>

TargetKind == << "science", "science", "standard_star", "safe_location" >>

Targets == DOMAIN TargetXY

\* The required number of standard stars and of sky fibers on a petal.
Quota == [ standard_star |-> 1, sky_fiber |-> 1 ]

\* The targets in the field of a tile, one choice per tile.
Fields == { {1}, {1, 2, 3, 4} }

\* nobs_remaining at the start, one choice per run.
Budgets ==
    { [ t \in Targets |-> 1 ],
      [ t \in Targets |-> MaxNobs ],
      [ t \in Targets |-> IF t = 1 THEN MaxNobs ELSE 1 ] }

Tiles == 1..NTiles

\* The availability map of one tile: for each location the targets of the
\* field it can reach without touching a GFA or a petal edge, in rank order.
AvailOf(field) ==
    [ l \in DOMAIN EngHw.loc_pos_xy_mm |->
        Ascending({ t \in field :
            /\ ~position_xy_bad(EngHw, l, TargetXY[t]).val
            /\ ~collide_xy_edges(EngHw, l, TargetXY[t]).val }) ]

\* collide_xy for two locations of the focal plane holding two targets.
CollideTab ==
    [ q \in (DOMAIN EngHw.loc_pos_xy_mm) \X Targets
              \X (DOMAIN EngHw.loc_pos_xy_mm) \X Targets |->
        collide_xy(EngHw, q[1], TargetXY[q[2]], q[3], TargetXY[q[4]]).val ]

InSeq(x, sq1) == \E i \in 1..Len(sq1) : sq1[i] = x

\* The tiles on which the assignment asg holds target t.
TilesOf(asg, t) == { j \in Tiles : \E l \in DOMAIN asg[j] : asg[j][l] = t }

\* The observations of t that are still free: nobs_remaining less the tiles
\* not yet observed on which t is planned.
Remaining(asg, nobs, c, t) ==
    nobs[t] - Cardinality({ j \in TilesOf(asg, t) : j > c })

\* A variant of the inner loop without the collision check.
CollisionIgnored(asg, j, l, t) == TRUE

\* The collision check of the inner loop: target t on (tile j, loc l) against
\* every neighbor of l that is assigned on the tile.
CollisionFree(asg, j, l, t) ==
    \A k \in 1..Len(EngHw.neighbors[l]) :
        LET nb == EngHw.neighbors[l][k] IN
        asg[j][nb] # NoTarget => ~CollideTab[<<l, t, nb, asg[j][nb]>>]

\* A variant of the candidate test without the check of the budget.
BudgetIgnored(asg, nobs, c, t) == TRUE

\* Target t has observations left.
HasBudget(asg, nobs, c, t) == Remaining(asg, nobs, c, t) > 0

\* Target t can be locked in on the unassigned slot (tile j, loc l).
Fits(asg, nobs, c, j, l, t) ==
    /\ \A l2 \in DOMAIN asg[j] : asg[j][l2] # t
    /\ HasBudget(asg, nobs, c, t)
    /\ CollisionFree(asg, j, l, t)

\* The highest-ranked candidate of the slot, of one of the kinds, that fits;
\* NoTarget when there is none.
FindBest(asg, av, nobs, c, j, l, kinds) ==
    With({ i \in 1..Len(av[j][l]) :
             /\ TargetKind[av[j][l][i]] \in kinds
             /\ Fits(asg, nobs, c, j, l, av[j][l][i]) }, LAMBDA ok :
        IF ok = {} THEN NoTarget
        ELSE av[j][l][CHOOSE i \in ok : \A i2 \in ok : i <= i2])

Put2(asg, j, l, t) == [ asg EXCEPT ![j][l] = t ]

\* The slots of the tiles after tile c, tile by tile, the locations of a tile
\* in the order order[j].
RECURSIVE SlotsAfter(_, _)
SlotsAfter(c, order) ==
    IF c >= NTiles THEN << >>
    ELSE [ i \in 1..Len(order[c + 1]) |-> <<c + 1, order[c + 1][i]>> ]
             \o SlotsAfter(c + 1, order)

\* One sweep that locks in the best candidate on each unassigned slot.
RECURSIVE Sweep(_, _, _, _, _, _, _)
Sweep(asg, av, nobs, c, slots, i, kinds) ==
    IF i > Len(slots) THEN asg
    ELSE LET j == slots[i][1]
             l == slots[i][2]
         IN  With(FindBest(asg, av, nobs, c, j, l, kinds), LAMBDA t :
             With(IF asg[j][l] = NoTarget /\ t # NoTarget
                  THEN Put2(asg, j, l, t) ELSE asg, LAMBDA asg2 :
                 Sweep(asg2, av, nobs, c, slots, i + 1, kinds)))

\* simple_assign: every tile in order, every loc in ascending order.
simple_assign(asg, av, nobs, c) ==
    Sweep(asg, av, nobs, c, SlotsAfter(c, [ j \in Tiles |-> EngHw.locations ]), 1,
          { "science" })

\* new_assign_fibers: within a tile, the locs with fewer candidates first.
FewestFirst(av, j) ==
    SortSeq(EngHw.locations,
            LAMBDA a, b : \/ Len(av[j][a]) < Len(av[j][b])
                          \/ (Len(av[j][a]) = Len(av[j][b]) /\ a < b))

new_assign_fibers(asg, av, nobs, c) ==
    Sweep(asg, av, nobs, c, SlotsAfter(c, [ j \in Tiles |-> FewestFirst(av, j) ]), 1,
          { "science" })

\* update_plan_from_one_obs, the counters: tile j is observed, and every
\* target assigned on it has one observation less to go.
ObservedNobs(asg, nobs, j) ==
    [ t \in DOMAIN nobs |-> IF j \in TilesOf(asg, t) THEN nobs[t] - 1 ELSE nobs[t] ]

\* A variant of the availability update that drops the targets that have
\* reached zero from the next tile only.
ObservedAvailNextTile(av, nobs2, j) ==
    [ j2 \in DOMAIN av |->
        IF j2 # j + 1 THEN av[j2]
        ELSE [ l \in DOMAIN av[j2] |->
                 SelectSeq(av[j2][l], LAMBDA t : nobs2[t] > 0) ] ]

\* update_plan_from_one_obs, the availability: the targets that have reached
\* zero leave the avail entries of the tiles after j.
ObservedAvail(av, nobs2, j) ==
    [ j2 \in DOMAIN av |->
        IF j2 <= j THEN av[j2]
        ELSE [ l \in DOMAIN av[j2] |->
                 SelectSeq(av[j2][l], LAMBDA t : nobs2[t] > 0) ] ]

\* The targets that are assigned on some tile, and the number of slots
\* that hold a target.
Served(asg) == { t \in Targets : TilesOf(asg, t) # {} }

Filled(asg) ==
    Cardinality({ q \in Tiles \X DOMAIN EngHw.loc_pos_xy_mm :
                    asg[q[1]][q[2]] # NoTarget })

\* The least triple of a set of triples, in the order of the sweeps.
Before(o, o2) ==
    \/ o[1] < o2[1]
    \/ (o[1] = o2[1] /\ o[2] < o2[2])
    \/ (o[1] = o2[1] /\ o[2] = o2[2] /\ o[3] <= o2[3])

First(S) == CHOOSE o \in S : \A o2 \in S : Before(o, o2)

\* A variant of the steal that takes the target from its slot and drops it.
StealDropped(asg, j, l, j2, l2, t, t2) == Put2(asg, j2, l2, NoTarget)

\* Steal-and-reassign: slot (j, l) takes target t from slot (j2, l2), which
\* takes its fallback t2.
Steal(asg, j, l, j2, l2, t, t2) ==
    Put2(Put2(Put2(asg, j2, l2, NoTarget), j, l, t), j2, l2, t2)

\* The fallback of slot (j2, l2) once its target has moved to (j, l).
Fallback(asg, av, nobs, c, j, l, j2, l2, t) ==
    With(Put2(Put2(asg, j2, l2, NoTarget), j, l, t), LAMBDA asg2 :
        FindBest(asg2, av, nobs, c, j2, l2, { "science" }))

\* The steals open to the unassigned slot (j, l): <<i, j2, l2>> for the
\* candidate of rank i held by (j2, l2), where (a) (j2, l2) has a fallback,
\* (b) and (c) the candidate fits (j, l) once (j2, l2) has let it go, and the
\* fallback is a target that no slot serves yet.
StealOptions(asg, av, nobs, c, j, l) ==
    { o \in (1..Len(av[j][l])) \X ((c + 1)..NTiles) \X (DOMAIN EngHw.loc_pos_xy_mm) :
        LET t == av[j][l][o[1]] IN
        /\ TargetKind[t] = "science"
        /\ <<o[2], o[3]>> # <<j, l>>
        /\ asg[o[2]][o[3]] = t
        /\ With(Put2(asg, o[2], o[3], NoTarget), LAMBDA asg1 :
               Fits(asg1, nobs, c, j, l, t))
        /\ With(Fallback(asg, av, nobs, c, j, l, o[2], o[3], t), LAMBDA t2 :
               t2 # NoTarget /\ t2 \notin Served(asg)) }

RECURSIVE ImproveSweep(_, _, _, _, _, _)
ImproveSweep(asg, av, nobs, c, slots, i) ==
    IF i > Len(slots) THEN asg
    ELSE LET j == slots[i][1]
             l == slots[i][2]
         IN  With(IF asg[j][l] = NoTarget
                  THEN StealOptions(asg, av, nobs, c, j, l) ELSE {}, LAMBDA opts :
             With(IF opts = {} THEN asg
                  ELSE With(First(opts), LAMBDA o :
                       With(Fallback(asg, av, nobs, c, j, l, o[2], o[3],
                                     av[j][l][o[1]]), LAMBDA t2 :
                           Steal(asg, j, l, o[2], o[3], av[j][l][o[1]], t2))),
                  LAMBDA asg2 :
                 ImproveSweep(asg2, av, nobs, c, slots, i + 1)))

improve(asg, av, nobs, c) ==
    ImproveSweep(asg, av, nobs, c,
                 SlotsAfter(c, [ j \in Tiles |-> EngHw.locations ]), 1)

\* The unserved science target that slot (j, l) can take once its target has
\* moved to (j3, l3); NoTarget when there is none.
Successor(asg, av, nobs, c, j, l, j3, l3) ==
    With(Put2(Put2(asg, j, l, NoTarget), j3, l3, asg[j][l]), LAMBDA moved :
    With({ i \in 1..Len(av[j][l]) :
             /\ TargetKind[av[j][l][i]] = "science"
             /\ av[j][l][i] \notin Served(asg)
             /\ Fits(moved, nobs, c, j, l, av[j][l][i]) }, LAMBDA ok :
        IF ok = {} THEN NoTarget
        ELSE av[j][l][CHOOSE i \in ok : \A i2 \in ok : i <= i2]))

\* The moves open to the assigned slot (j, l): <<j3, l3, 0>> for an
\* unassigned slot (j3, l3) that reaches the target and fits it, the move
\* freeing (j, l) for an unserved target.
MoveOptions(asg, av, nobs, c, j, l) ==
    { o \in ((c + 1)..NTiles) \X (DOMAIN EngHw.loc_pos_xy_mm) \X {0} :
        /\ <<o[1], o[2]>> # <<j, l>>
        /\ asg[o[1]][o[2]] = NoTarget
        /\ InSeq(asg[j][l], av[o[1]][o[2]])
        /\ With(Put2(asg, j, l, NoTarget), LAMBDA asg1 :
               Fits(asg1, nobs, c, o[1], o[2], asg[j][l]))
        /\ Successor(asg, av, nobs, c, j, l, o[1], o[2]) # NoTarget }

RECURSIVE RedistributeSweep(_, _, _, _, _, _)
RedistributeSweep(asg, av, nobs, c, slots, i) ==
    IF i > Len(slots) THEN asg
    ELSE LET j == slots[i][1]
             l == slots[i][2]
         IN  With(IF asg[j][l] # NoTarget /\ TargetKind[asg[j][l]] = "science"
                  THEN MoveOptions(asg, av, nobs, c, j, l) ELSE {}, LAMBDA opts :
             With(IF opts = {} THEN asg
                  ELSE With(First(opts), LAMBDA o :
                       With(Successor(asg, av, nobs, c, j, l, o[1], o[2]),
                            LAMBDA t3 :
                           Put2(Put2(asg, o[1], o[2], asg[j][l]), j, l, t3))),
                  LAMBDA asg2 :
                 RedistributeSweep(asg2, av, nobs, c, slots, i + 1)))

redistribute_tf(asg, av, nobs, c) ==
    RedistributeSweep(asg, av, nobs, c,
                      SlotsAfter(c, [ j \in Tiles |-> EngHw.locations ]), 1)

\* The slots of tile j that hold a target of kind k on petal p.
KindCount(asg, j, p, k) ==
    Cardinality({ l \in DOMAIN asg[j] :
                    /\ EngHw.loc_petal[l] = p
                    /\ asg[j][l] # NoTarget
                    /\ TargetKind[asg[j][l]] = k })

\* assign_sf_ss(j): each unassigned loc of tile j takes a standard star or a
\* sky fiber while its petal is short of them.
RECURSIVE assign_sf_ss(_, _, _, _, _, _)
assign_sf_ss(asg, av, nobs, c, j, i) ==
    IF i > Len(EngHw.locations) THEN asg
    ELSE LET l == EngHw.locations[i] IN
         With({ k \in DOMAIN Quota :
                  KindCount(asg, j, EngHw.loc_petal[l], k) < Quota[k] },
              LAMBDA short :
         With(FindBest(asg, av, nobs, c, j, l, short), LAMBDA t :
         With(IF asg[j][l] = NoTarget /\ t # NoTarget
              THEN Put2(asg, j, l, t) ELSE asg, LAMBDA asg2 :
             assign_sf_ss(asg2, av, nobs, c, j, i + 1))))

\* assign_unused(j): each loc of tile j that is still unassigned takes a
\* safe location.
assign_unused(asg, av, nobs, c, j) ==
    Sweep(asg, av, nobs, c,
          [ i \in 1..Len(EngHw.locations) |-> <<j, EngHw.locations[i]>> ], 1,
          { "safe_location" })

---------------------------------------------------------------------------
(* The engine specification: an entry plan, then the passes and the        *)
(* observation of the tiles in any order, until every tile is observed.    *)

AvailTab == [ f \in Fields |-> AvailOf(f) ]

\* What pass keeps of a run: the function that ran last, the counts it
\* started from, and the inputs of the run.
Ran(op) ==
    [ pass EXCEPT !.op = op, !.filled = Filled(A),
                  !.served = Cardinality(Served(A)) ]

Planned == pass.op \notin { "none", "start" }

InitEngine ==
    /\ input = EngInput
    /\ hw = EngHw
    /\ call = NoCall
    /\ ParIdle
    /\ \E fields \in [ Tiles -> Fields ], budget \in Budgets :
           /\ plates = [ j \in Tiles |-> AvailTab[fields[j]] ]
           /\ mtl = budget
           /\ pass = [ op |-> "start", filled |-> 0, served |-> 0,
                       fields |-> fields, nobs0 |-> budget ]
    /\ A = [ j \in Tiles |-> [ l \in DOMAIN EngHw.loc_pos_xy_mm |-> NoTarget ] ]
    /\ committed = 0

SimpleAssign ==
    /\ pass.op = "start"
    /\ A' = simple_assign(A, plates, mtl, committed)
    /\ pass' = Ran("simple_assign")
    /\ UNCHANGED <<input, hw, call, parVars, plates, mtl, committed>>

NewAssignFibers ==
    /\ pass.op = "start"
    /\ A' = new_assign_fibers(A, plates, mtl, committed)
    /\ pass' = Ran("new_assign_fibers")
    /\ UNCHANGED <<input, hw, call, parVars, plates, mtl, committed>>

Improve ==
    /\ Planned /\ committed < NTiles
    /\ A' = improve(A, plates, mtl, committed)
    /\ pass' = Ran("improve")
    /\ UNCHANGED <<input, hw, call, parVars, plates, mtl, committed>>

RedistributeTF ==
    /\ Planned /\ committed < NTiles
    /\ A' = redistribute_tf(A, plates, mtl, committed)
    /\ pass' = Ran("redistribute_tf")
    /\ UNCHANGED <<input, hw, call, parVars, plates, mtl, committed>>

AssignSfSs(j) ==
    /\ Planned /\ j > committed
    /\ A' = assign_sf_ss(A, plates, mtl, committed, j, 1)
    /\ pass' = Ran("assign_sf_ss")
    /\ UNCHANGED <<input, hw, call, parVars, plates, mtl, committed>>

AssignUnused(j) ==
    /\ Planned /\ j > committed
    /\ A' = assign_unused(A, plates, mtl, committed, j)
    /\ pass' = Ran("assign_unused")
    /\ UNCHANGED <<input, hw, call, parVars, plates, mtl, committed>>

\* update_plan_from_one_obs for the next tile in order.
UpdatePlanFromOneObs ==
    /\ Planned /\ committed < NTiles
    /\ mtl' = ObservedNobs(A, mtl, committed + 1)
    /\ plates' = ObservedAvail(plates, mtl', committed + 1)
    /\ committed' = committed + 1
    /\ pass' = Ran("update_plan_from_one_obs")
    /\ UNCHANGED <<input, hw, call, parVars, A>>

NextEngine ==
    \/ SimpleAssign
    \/ NewAssignFibers
    \/ Improve
    \/ RedistributeTF
    \/ \E j \in Tiles : AssignSfSs(j)
    \/ \E j \in Tiles : AssignUnused(j)
    \/ UpdatePlanFromOneObs

SpecEngine == InitEngine /\ [][NextEngine]_vars

---------------------------------------------------------------------------
(* Properties of the sequential specification.                             *)

InTable(loc) == Has(hw.loc_pos_xy_mm, loc)

IsNeighbor(a, b) ==
    \E k \in 1..Len(hw.neighbors[a]) : hw.neighbors[a][k] = b

\* The table holds each location id once, and every angle range is proper.
ValidTable ==
    /\ \A i, j \in 1..Len(hw.locations) :
           hw.locations[i] = hw.locations[j] => i = j
    /\ \A l \in DOMAIN hw.loc_pos_xy_mm :
           /\ hw.loc_theta_min[l] < hw.loc_theta_max[l]
           /\ hw.loc_phi_min[l] < hw.loc_phi_max[l]

BatchCall == call.op \in { "check_collisions_xy", "check_collisions_thetaphi" }

\* The pair test of entries i and j of the batch of the last call, made by
\* the single-pair query.
BatchPairCollides(i, j) ==
    IF call.op = "check_collisions_xy"
    THEN collide_xy(hw, call.loc[i], call.xy[i], call.loc[j], call.xy[j]).val
    ELSE collide_thetaphi(hw, call.loc[i], call.tp[i][1], call.tp[i][2],
                          call.loc[j], call.tp[j][1], call.tp[j][2]).val

\* C1: on a valid table and for a batch of locations of the table,
\* check_collisions_xy and check_collisions_thetaphi return a vector with one
\* entry per supplied location, entry i being true exactly when loc[i] and
\* some other supplied location that is its neighbor form a colliding pair;
\* a neighbor that is not supplied is not tested.
C1_BatchMarksSuppliedPairs ==
    (BatchCall /\ ValidTable /\ \A i \in 1..Len(call.loc) : InTable(call.loc[i]))
        => /\ ~call.ret.exc
           /\ Len(call.ret.val) = Len(call.loc)
           /\ \A i \in 1..Len(call.loc) :
                  call.ret.val[i] =
                      \E j \in 1..Len(call.loc) :
                          /\ j # i
                          /\ IsNeighbor(call.loc[i], call.loc[j])
                          /\ BatchPairCollides(i, j)

\* The two placements of the last collide_xy call.
Placed1 == loc_position_xy(hw, call.loc1, call.xy1).val

Placed2 == loc_position_xy(hw, call.loc2, call.xy2).val

\* C2: collide_xy returns true exactly when positioner 1 is unreachable at
\* xy1, or positioner 2 is unreachable at xy2, or one of the pairs phi1-phi2,
\* theta1-phi2, theta2-phi1 of placed shapes intersects; an intersection of
\* theta1 with theta2 does not enter the result.
C2_CollideXYThreePairs ==
    (call.op = "collide_xy" /\ InTable(call.loc1) /\ InTable(call.loc2))
        => /\ ~call.ret.exc
           /\ call.ret.val =
                  \/ position_xy_bad(hw, call.loc1, call.xy1).val
                  \/ position_xy_bad(hw, call.loc2, call.xy2).val
                  \/ intersect(Placed1.shpphi, Placed2.shpphi)
                  \/ intersect(Placed1.shptheta, Placed2.shpphi)
                  \/ intersect(Placed2.shptheta, Placed1.shpphi)

\* collide_xy has returned false for two reachable positioners whose theta
\* bodies intersect.
C2_BodiesTouchNoCollision ==
    /\ call.op = "collide_xy"
    /\ ~call.ret.exc
    /\ ~call.ret.val
    /\ ~Placed1.failed /\ ~Placed2.failed
    /\ intersect(Placed1.shptheta, Placed2.shptheta)

\* C3: for locations a and b of the table, collide_xy(a, xa, b, xb) is
\* collide_xy(b, xb, a, xa), whether or not the positioners are reachable.
C3_CollideXYSymmetric ==
    (call.op = "collide_xy" /\ InTable(call.loc1) /\ InTable(call.loc2))
        => call.ret = collide_xy(hw, call.loc2, call.xy2, call.loc1, call.xy1)

\* collide_xy has returned true where only the theta body of the second
\* positioner meets the phi arm of the first: the test that has no
\* counterpart of its own form when the arguments are swapped.
C3_OneSidedHit ==
    /\ call.op = "collide_xy"
    /\ ~call.ret.exc
    /\ call.ret.val
    /\ ~Placed1.failed /\ ~Placed2.failed
    /\ ~intersect(Placed1.shpphi, Placed2.shpphi)
    /\ ~intersect(Placed1.shptheta, Placed2.shpphi)
    /\ intersect(Placed2.shptheta, Placed1.shpphi)

\* C4: the neighbor relation of a constructed Hardware is symmetric and
\* irreflexive.
C4_NeighborsSymmetricIrreflexive ==
    \A a, b \in DOMAIN hw.neighbors :
        /\ IsNeighbor(a, b) <=> IsNeighbor(b, a)
        /\ ~IsNeighbor(a, a)

\* C5: no query ends in an exception, whatever location id it is given.
C5_NoQueryThrows == call # NoCall => ~call.ret.exc

\* C6: every constructed Hardware has unique location ids and, for every
\* location, theta_min < theta_max and phi_min < phi_max (the constructor
\* having rejected every other input).
C6_ConstructedTableValid == ValidTable

\* The entries of vector s are in ascending order.
IsAscending(s) == \A i \in 1..(Len(s) - 1) : s[i] <= s[i + 1]

\* The location ids of the input rows that satisfy Row, as a bag: how many
\* rows carry id k.
RowCount(k, Row(_)) ==
    Cardinality({ i \in 1..Len(input) : input[i].location = k /\ Row(input[i]) })

\* Vector s holds exactly the location ids of the input rows that satisfy
\* Row, each once per row.
HoldsRows(s, Row(_)) ==
    /\ Len(s) = Cardinality({ i \in 1..Len(input) : Row(input[i]) })
    /\ \A k \in { input[i].location : i \in 1..Len(input) } :
           Cardinality({ j \in 1..Len(s) : s[j] = k }) = RowCount(k, Row)

\* The petal numbers of the input rows.
InputPetals == { input[i].petal : i \in 1..Len(input) }

\* C19: after construction, locations is the input location ids in ascending
\* order; for every petal p of the input, petal_locations[p] is in ascending
\* order and holds exactly the location ids of the rows of petal p; npetal is
\* the largest petal number plus one.
C19_LocationsSortedPerPetal ==
    /\ IsAscending(hw.locations)
    /\ HoldsRows(hw.locations, LAMBDA r : TRUE)
    /\ \A p \in InputPetals :
           /\ Has(hw.petal_locations, p)
           /\ IsAscending(hw.petal_locations[p])
           /\ HoldsRows(hw.petal_locations[p], LAMBDA r : r.petal = p)
    /\ input # << >> =>
           \A p \in InputPetals :
               (\A q \in InputPetals : q <= p) => hw.npetal = p + 1

---------------------------------------------------------------------------
(* Properties of the parallel specification.                               *)

\* The vector one thread alone produces for the call.
OneThreadResult ==
    PairLoop(par.fpos, par.loc_indx, par.checkpairs, 1,
             [ i \in 1..Len(par.loc) |-> FALSE ]).val

InCritical(w) == workers[w].pc \in { "load", "store", "leave" }

\* C10: with any number of threads and in every interleaving, at most one
\* thread is between the read and the write of a mark, and the vector the
\* call returns is the one a single thread produces: the OR, per slot, over
\* the colliding pairs.
C10_MarksSerialized ==
    /\ \A v, w \in DOMAIN workers : (InCritical(v) /\ InCritical(w)) => v = w
    /\ par.phase = "returned" => result = OneThreadResult

\* A call has returned in which two threads have each marked a colliding
\* pair, the two pairs sharing a slot.
C10_TwoThreadsMarked ==
    /\ par.phase = "returned"
    /\ par.run_threads >= 2
    /\ Len(par.checkpairs) = 2
    /\ \A p \in 1..2 : PairHit(par.fpos, par.loc_indx, par.checkpairs[p]).val
    /\ \A i \in 1..Len(par.loc) : result[i]

---------------------------------------------------------------------------
(* Properties of the engine specification.                                 *)

Assigned(j, l) == A[j][l] # NoTarget

Terminated == Planned /\ committed = NTiles

\* C7: once an entry plan has run, and so when the engine terminates, every
\* slot holds at most one target (A[tile][loc] is one id or NoTarget), no two
\* assigned locs of a tile collide under collide_xy, and every assigned
\* target is in avail[tile][loc].
C7_AssignmentFeasible ==
    Planned =>
        \A j \in Tiles :
            /\ \A l \in DOMAIN A[j] :
                   /\ A[j][l] \in Targets \cup {NoTarget}
                   /\ Assigned(j, l) => InSeq(A[j][l], plates[j][l])
            /\ \A l1, l2 \in DOMAIN A[j] :
                   (l1 # l2 /\ Assigned(j, l1) /\ Assigned(j, l2))
                       => ~collide_xy(hw, l1, TargetXY[A[j][l1]],
                                      l2, TargetXY[A[j][l2]]).val

\* The engine has terminated with both locs of a tile assigned, on a tile
\* where the first loc has a candidate it was refused.
C7_TwoLocsAssigned ==
    /\ Terminated
    /\ \E j \in Tiles :
           /\ Assigned(j, 1) /\ Assigned(j, 2)
           /\ \E i \in 1..Len(plates[j][1]) :
                  collide_xy(hw, 1, TargetXY[plates[j][1][i]],
                             2, TargetXY[A[j][2]]).val

\* Scenario S4: one target, in the field of every tile, with fewer
\* observations to go than there are tiles.
S4 ==
    /\ \A j \in Tiles : pass.fields[j] = {1}
    /\ pass.nobs0[1] < NTiles

\* C8: nobs_remaining is never below zero; when every tile is observed, a
\* target's initial nobs_remaining less its final nobs_remaining is the
\* number of tiles on which it is assigned; and in scenario S4 the target is
\* assigned on exactly the first tiles in order, as many as its budget, and
\* its counter ends at 0.
C8_BudgetConserved ==
    Planned =>
        /\ \A t \in Targets : mtl[t] >= 0
        /\ Terminated =>
               \A t \in Targets :
                   pass.nobs0[t] - mtl[t] = Cardinality(TilesOf(A, t))
        /\ (Terminated /\ S4) =>
               /\ TilesOf(A, 1) = 1..pass.nobs0[1]
               /\ mtl[1] = 0

\* Scenario S4 has run to the end with a budget of MaxNobs: the target is on
\* the first MaxNobs tiles and not on the last.
C8_BudgetExhausted ==
    /\ Terminated
    /\ S4
    /\ pass.nobs0[1] = MaxNobs
    /\ TilesOf(A, 1) = 1..MaxNobs
    /\ mtl[1] = 0

\* C9: the state improve returns has at least as many filled slots and at
\* least as many served targets as the state it was given.
C9_ImproveMonotone ==
    pass.op = "improve" =>
        /\ Filled(A) >= pass.filled
        /\ Cardinality(Served(A)) >= pass.served

\* improve has returned after a steal: one more slot is filled and one more
\* target is served.
C9_ImproveRescued ==
    /\ pass.op = "improve"
    /\ Filled(A) > pass.filled
    /\ Cardinality(Served(A)) > pass.served

\* The targets assigned on tile j.
TileTargets(j) == { A[j][l] : l \in DOMAIN A[j] } \ {NoTarget}

\* reachable[t], the inverse of avail: the slots whose avail entry holds t.
ReachableSlots(av, t) ==
    { q \in Tiles \X DOMAIN EngHw.loc_pos_xy_mm : InSeq(t, av[q[1]][q[2]]) }

\* The slots of the tiles that are not yet observed.
LaterSlots(c) == { q \in Tiles \X DOMAIN EngHw.loc_pos_xy_mm : q[1] > c }

\* C20: the step that commits a tile takes one from nobs_remaining of every
\* target assigned on that tile and leaves every other counter as it was;
\* a target whose counter is zero is in no avail entry of a tile that is
\* still to be observed (and so in no reachable entry for such a tile), and
\* is assigned on no such tile.
C20_ObservationUpdatesPlan ==
    /\ [][committed' # committed =>
            /\ committed' = committed + 1
            /\ \A t \in Targets :
                   mtl'[t] = IF t \in TileTargets(committed')
                             THEN mtl[t] - 1 ELSE mtl[t]]_vars
    /\ [](\A t \in Targets :
              mtl[t] = 0 =>
                  /\ ReachableSlots(plates, t) \cap LaterSlots(committed) = {}
                  /\ \A q \in LaterSlots(committed) : A[q[1]][q[2]] # t)

\* update_plan_from_one_obs has run for a tile that held a target with one
\* observation to go and another target with more: the first is at zero and
\* gone from an avail entry of a later tile whose field holds it, the second
\* is one down and still there.
C20_ExhaustedTargetDropped ==
    /\ pass.op = "update_plan_from_one_obs"
    /\ committed < NTiles
    /\ \E t \in TileTargets(committed), q \in LaterSlots(committed) :
           /\ mtl[t] = 0
           /\ InSeq(t, AvailTab[pass.fields[q[1]]][q[2]])
           /\ ~InSeq(t, plates[q[1]][q[2]])
    /\ \E t \in TileTargets(committed), q \in LaterSlots(committed) :
           /\ mtl[t] > 0
           /\ InSeq(t, plates[q[1]][q[2]])


---------------------------------------------------------------------------
(* Properties of the specification of the *_multi forms.                   *)

\* The output of the sequential loop: element t is what the single-point
\* operation gives for element t of the arguments.
SingleOutputs ==
    [ t \in 1..Len(par.args) |->
        SinglePoint(hw, par.form, par.tile, par.args, t) ]

\* C11: whatever the threads argument and the interleaving, the output of a
\* *_multi call has the length of its arguments from the start of the loop
\* on, and when the call returns element t is the result of the
\* single-point operation on element t of the arguments; the call fails to
\* return only when the single-point operation itself throws on one of the
\* elements.
C11_MultiOutputMatchesSingle ==
    /\ par.phase \in { "running", "returned", "terminated" } =>
           Len(result) = Len(par.args)
    /\ par.phase = "returned" =>
           \A t \in 1..Len(par.args) :
               /\ ~SingleOutputs[t].exc
               /\ result[t] = SingleOutputs[t].val
    /\ par.phase = "terminated" =>
           \E t \in 1..Len(par.args) : SingleOutputs[t].exc

\* A placement call over two locations has returned from a team of two
\* threads, each of which filled one element, and one positioner was placed.
C11_TwoThreadsFilled ==
    /\ par.phase = "returned"
    /\ par.form = "loc_position_xy"
    /\ par.run_threads = 2
    /\ Len(par.args) = 2
    /\ \A w \in DOMAIN workers : workers[w].f = workers[w].last + 1
                                    /\ workers[w].last = w + 1
    /\ ~result[1].failed
    /\ result[1] # result[2]

---------------------------------------------------------------------------
(* Properties of the kinematic specification.                              *)

\* A query that placed a positioner: it returned, and the shapes it left
\* differ from the templates of the location.
MovedCopy ==
    /\ call.op \in { "loc_position_xy", "loc_position_thetaphi" }
    /\ ~call.ret.exc
    /\ ~call.ret.val.failed
    /\ call.ret.val.shptheta # hw.loc_theta_excl[call.loc]
    /\ call.ret.val.shpphi # hw.loc_phi_excl[call.loc]

\* C12: after the constructor returns, whatever queries have been made, the
\* Hardware object is the one the constructor built: templates, boundary
\* polygons, neighbor lists and kinematic parameters are unchanged.
C12_HardwareUnchanged == hw = Hardware(input)

\* A placement has moved its copies of the templates, and the templates of
\* the table are still those of the input.
C12_PlacedOnCopy ==
    /\ MovedCopy
    /\ hw.loc_theta_excl[call.loc] = input[LastIndex(input, call.loc)].excl_theta
    /\ hw.loc_phi_excl[call.loc] = input[LastIndex(input, call.loc)].excl_phi

\* The arguments of an xy_to_thetaphi call: the arms a and b of its location
\* and the squared distance s from the center to the position.
ArmA == hw.loc_theta_arm[call.loc]

ArmB == hw.loc_phi_arm[call.loc]

Offset == << call.position[1] - call.center[1], call.position[2] - call.center[2] >>

\* phi as the three branches give it: 0 at s = (a+b)^2, pi at s = (a-b)^2,
\* pi - opening between them.
BranchPhi ==
    LET s == sq(Offset) IN
    IF Abs(s - (ArmA + ArmB) * (ArmA + ArmB)) <= FLT_EPSILON THEN 0
    ELSE IF Abs(s - (ArmA - ArmB) * (ArmA - ArmB)) <= FLT_EPSILON THEN M_PI
    ELSE M_PI - ACos(ArmA * ArmA + ArmB * ArmB - s, 2 * ArmA * ArmB)

\* theta as the three branches give it: atan2(offset.y, offset.x) at the two
\* limits, atan2(offset.y, offset.x) - txy between them.
BranchTheta ==
    LET s == sq(Offset) IN
    IF \/ Abs(s - (ArmA + ArmB) * (ArmA + ArmB)) <= FLT_EPSILON
       \/ Abs(s - (ArmA - ArmB) * (ArmA - ArmB)) <= FLT_EPSILON
    THEN ATan2(Offset[2], Offset[1])
    ELSE ATan2(Offset[2], Offset[1])
             - ACos(ArmA * ArmA + s - ArmB * ArmB, 2 * ArmA * Sqrt(s))

\* s is outside [(a-b)^2, (a+b)^2] by more than the tolerance.
OutsideAnnulus ==
    \/ sq(Offset) < (ArmA - ArmB) * (ArmA - ArmB) - FLT_EPSILON
    \/ sq(Offset) > (ArmA + ArmB) * (ArmA + ArmB) + FLT_EPSILON

WrappedPhi ==
    _check_angle_range(BranchPhi, hw.loc_phi_offset[call.loc],
                       hw.loc_phi_min[call.loc], hw.loc_phi_max[call.loc])

WrappedTheta ==
    _check_angle_range(BranchTheta, hw.loc_theta_offset[call.loc],
                       hw.loc_theta_min[call.loc], hw.loc_theta_max[call.loc])

\* C14: xy_to_thetaphi reports unreachable exactly when s is outside
\* [(a-b)^2, (a+b)^2] or an angle is out of its range after wrapping; a
\* reachable position has phi = 0 at s = (a+b)^2, phi = pi at s = (a-b)^2 and
\* phi = pi - opening between them, up to the wrap by 2 pi and with no wrap
\* when that value is in range; arms (3, 3) at (0, 0) do not reach (10, 0).
C14_ThetaPhiBranches ==
    call.op = "xy_to_thetaphi" =>
        /\ call.ret.fail <=>
               (OutsideAnnulus \/ WrappedPhi.bad \/ WrappedTheta.bad)
        /\ ~call.ret.fail =>
               /\ call.ret.phi \in { BranchPhi, BranchPhi + 2 * M_PI,
                                     BranchPhi - 2 * M_PI }
               /\ call.ret.phi = WrappedPhi.ang
               /\ call.ret.theta = WrappedTheta.ang
               /\ (/\ BranchPhi >= hw.loc_phi_offset[call.loc] + hw.loc_phi_min[call.loc]
                   /\ BranchPhi <= hw.loc_phi_offset[call.loc] + hw.loc_phi_max[call.loc])
                      => call.ret.phi = BranchPhi
        /\ (/\ ArmA = 300
            /\ ArmB = 300
            /\ call.center = <<0, 0>>
            /\ call.position = <<1000, 0>>) => call.ret.fail

\* The folded limit of arms of different lengths was reached: s = (a-b)^2
\* with a # b, and the call gave phi = pi.
C14_FoldedReached ==
    /\ call.op = "xy_to_thetaphi"
    /\ ArmA # ArmB
    /\ sq(Offset) = (ArmA - ArmB) * (ArmA - ArmB)
    /\ ~call.ret.fail
    /\ call.ret.phi = M_PI

\* The positioner of a collide_xy_edges call as loc_position_xy places it.
EdgePlaced == loc_position_xy(hw, call.loc, call.xy).val

\* C15: collide_xy_edges(loc, xy) on a location of the table returns true
\* exactly when the positioner is unreachable at xy or its placed phi shape
\* intersects the GFA polygon or the petal polygon of the location; the
\* theta shape plays no part.
C15_EdgesTestPhiOnly ==
    (call.op = "collide_xy_edges" /\ ~call.ret.exc) =>
        call.ret.val <=>
            \/ EdgePlaced.failed
            \/ intersect(EdgePlaced.shpphi, hw.loc_gfa_excl[call.loc])
            \/ intersect(EdgePlaced.shpphi, hw.loc_petal_excl[call.loc])

\* collide_xy_edges returned false for a placed positioner whose theta shape
\* intersects the GFA polygon.
C15_BodyOnGfaNoCollision ==
    /\ call.op = "collide_xy_edges"
    /\ ~call.ret.exc
    /\ ~call.ret.val
    /\ ~EdgePlaced.failed
    /\ intersect(EdgePlaced.shptheta, hw.loc_gfa_excl[call.loc])

\* Scenario S1: xy_to_thetaphi for one loc at (0, 0) with arms (3 mm, 3 mm)
\* and angles unconstrained, at position (4 mm, 0).
S1Call ==
    /\ call.op = "xy_to_thetaphi"
    /\ Len(input) = 1
    /\ call.center = <<0, 0>>
    /\ ArmA = 300
    /\ ArmB = 300
    /\ hw.loc_theta_min[call.loc] = -M_PI
    /\ hw.loc_theta_max[call.loc] = M_PI
    /\ hw.loc_phi_min[call.loc] = -M_PI
    /\ hw.loc_phi_max[call.loc] = M_PI
    /\ call.position = <<400, 0>>

\* C16 as stated: in scenario S1 the position is reachable with theta
\* approximately 0 (within one angle unit of the model, 3 degrees) and
\* phi = pi - acos((9+9-16)/18).
C16_S1ThetaNearZero ==
    S1Call =>
        /\ ~call.ret.fail
        /\ Abs(call.ret.theta) <= 1
        /\ call.ret.phi = M_PI - ACos(9 + 9 - 16, 18)

\* C16, amended: in scenario S1 the position is reachable with
\* theta = atan2(0, 4) - acos((9+16-9)/(2*3*4)) = -acos(2/3), about -0.841
\* rad, and phi = pi - acos((9+9-16)/18).
C16_S1ThetaIsMinusTxy ==
    S1Call =>
        /\ ~call.ret.fail
        /\ call.ret.theta = -ACos(9 + 16 - 9, 2 * 3 * 4)
        /\ call.ret.phi = M_PI - ACos(9 + 9 - 16, 18)

\* The call of scenario S1 has returned, with theta 48 degrees below the
\* x axis.
C16_S1Returned ==
    /\ S1Call
    /\ ~call.ret.fail
    /\ Deg2Rad(-48) = call.ret.theta

\* The range of a _check_angle_range call: offset + min and offset + max.
AbsMin == call.ang_zero + call.ang_min

AbsMax == call.ang_zero + call.ang_max

\* C17: _check_angle_range shifts an angle below offset+min by +2 pi, then
\* an angle above offset+max by -2 pi; it accepts the angle exactly when the
\* result lies in [offset+min, offset+max]; an angle in the range is accepted
\* unchanged, and wrapping an accepted angle again accepts it with the same
\* value.
C17_AngleWrap ==
    call.op = "_check_angle_range" =>
        LET up == IF call.ang < AbsMin THEN call.ang + 2 * M_PI ELSE call.ang
            down == IF up > AbsMax THEN up - 2 * M_PI ELSE up
        IN  /\ call.ret.ang = down
            /\ ~call.ret.bad <=> (AbsMin <= call.ret.ang /\ call.ret.ang <= AbsMax)
            /\ (AbsMin <= call.ang /\ call.ang <= AbsMax) =>
                   (~call.ret.bad /\ call.ret.ang = call.ang)
            /\ ~call.ret.bad =>
                   _check_angle_range(call.ret.ang, call.ang_zero,
                                      call.ang_min, call.ang_max)
                       = [ bad |-> FALSE, ang |-> call.ret.ang ]

\* An angle below its range was shifted by +2 pi into the range and
\* accepted.
C17_WrappedUpAccepted ==
    /\ call.op = "_check_angle_range"
    /\ call.ang < AbsMin
    /\ call.ret.ang = call.ang + 2 * M_PI
    /\ ~call.ret.bad

\* What xy_to_thetaphi reports for position xy with the parameters of
\* location loc of the table.
LocAngles(loc, xy) ==
    xy_to_thetaphi(hw.loc_pos_xy_mm[loc], xy,
                   hw.loc_theta_arm[loc], hw.loc_phi_arm[loc],
                   hw.loc_theta_offset[loc], hw.loc_phi_offset[loc],
                   hw.loc_theta_min[loc], hw.loc_phi_min[loc],
                   hw.loc_theta_max[loc], hw.loc_phi_max[loc])

\* Position xy is one that xy_to_thetaphi reports reachable for loc.
Reachable(loc, xy) == Has(hw.loc_pos_xy_mm, loc) /\ ~LocAngles(loc, xy).fail

\* All positions of the batch of a check_collisions_xy call are reachable.
BatchReachable ==
    \A i \in 1..Len(call.loc) : Reachable(call.loc[i], call.xy[i])

\* C18: where xy_to_thetaphi reports a position reachable with angles
\* (theta, phi), loc_position_thetaphi on these angles reports reachable and
\* yields the shapes of loc_position_xy on the position; collide_thetaphi and
\* check_collisions_thetaphi on the angles return what collide_xy and
\* check_collisions_xy return on the positions.
C18_ThetaPhiAgreesWithXY ==
    /\ (call.op = "loc_position_xy" /\ Reachable(call.loc, call.xy)) =>
           /\ ~call.ret.exc /\ ~call.ret.val.failed
           /\ loc_position_thetaphi(hw, call.loc,
                                    LocAngles(call.loc, call.xy).theta,
                                    LocAngles(call.loc, call.xy).phi) = call.ret
    /\ (/\ call.op = "collide_xy"
        /\ Reachable(call.loc1, call.xy1)
        /\ Reachable(call.loc2, call.xy2)) =>
           collide_thetaphi(hw, call.loc1,
                            LocAngles(call.loc1, call.xy1).theta,
                            LocAngles(call.loc1, call.xy1).phi,
                            call.loc2,
                            LocAngles(call.loc2, call.xy2).theta,
                            LocAngles(call.loc2, call.xy2).phi) = call.ret
    /\ (call.op = "check_collisions_xy" /\ BatchReachable) =>
           check_collisions_thetaphi(hw, call.loc,
               [ i \in 1..Len(call.loc) |-> LocAngles(call.loc[i], call.xy[i]).theta ],
               [ i \in 1..Len(call.loc) |-> LocAngles(call.loc[i], call.xy[i]).phi ])
               = call.ret

\* check_collisions_xy placed two positioners at reachable positions whose
\* angles differ from location to location, and marked both as colliding.
C18_ReachablePairCollides ==
    /\ call.op = "check_collisions_xy"
    /\ Len(call.loc) = 2
    /\ BatchReachable
    /\ LocAngles(call.loc[1], call.xy[1]).theta
           # LocAngles(call.loc[2], call.xy[2]).theta
    /\ ~call.ret.exc
    /\ call.ret.val = <<TRUE, TRUE>>

---------------------------------------------------------------------------
(* Properties of the specification of the tile set.                        *)

\* C13: a Tiles object constructed from a sequence of tile ids keeps id, ra,
\* dec and obscond in input order, order[id[i]] is i for every position i of
\* the input (counted from 0), and order has one entry per tile.
C13_OrderIndexesEveryTile ==
    call.op = "Tiles" =>
        LET t == call.ret
            n == Len(call.ids)
        IN  /\ t.id = call.ids
            /\ t.obscond = call.obs
            /\ t.ra = [ i \in 1..n |-> 3 * i ]
            /\ t.dec = [ i \in 1..n |-> 0 ]
            /\ \A i \in 0..(n - 1) : t.order[t.id[i + 1]] = i
            /\ Cardinality(DOMAIN t.order) = n

=============================================================================
